---- MODULE Spec2Model ----
(***************************************************************************)
(* Multi-signal retrieval fusion of the knowledge-graph service:           *)
(* reciprocal_rank_fusion and weighted_fusion (hybrid_fusion.py), the BM25 *)
(* retriever and its score (bm25_retriever.py), the graph store and the    *)
(* graph retriever (neo4j_client.py, graph_retriever.py), the entity ids   *)
(* of ingestion (ingest.py, entity_extraction.py), the query route         *)
(* (query.py), and the stores behind the ingest, reset and chunk routes    *)
(* (ingest.py, admin.py, chunks.py, chunk_store.py, main.py).              *)
(*                                                                         *)
(* Scores are exact rationals.  An RRF score is kept as the numerator of   *)
(* a fraction whose denominator is RRFScale(k), a common multiple of every *)
(* k + rank that can occur, so sums and comparisons are exact.             *)
(***************************************************************************)
EXTENDS Integers, Sequences, FiniteSets, TLC

VARIABLES
    results_dict,   \* hybrid_fusion: the map method name -> result list, in insertion order
    fusion_call,    \* which fusion function was called, with its k / weights / top_k
    fused,          \* the list of FusedResult the call returned
    documents,      \* BM25Retriever.documents
    doc_ids,        \* BM25Retriever.doc_ids
    tokenized_corpus, \* BM25Retriever.tokenized_corpus
    bm25,           \* BM25Retriever.bm25: NoBM25 (None) or the BM25Okapi model
    bm25_call,      \* the arguments of the search call that returned bm25_results
    bm25_results,   \* the list of BM25Result the last search returned
    use_nltk,       \* MultilingualTokenizer._use_nltk of the retriever's tokenizer
    bm25_prev,      \* the same search called just before bm25_call, and what it returned
    bm25_last,      \* the last index_documents or clear_index call and its argument
    okapi_corpus,   \* the tokenized corpus a BM25Okapi model was built from
    okapi_edit,     \* one token of one document replaced by the query term: where, and the corpus before
    graph_documents, \* graph store: the ids of the Document nodes
    graph_chunks,   \* graph store: the ids of the Chunk nodes
    graph_entities, \* graph store: Entity id -> its name, language and confidence
    graph_mentions, \* graph store: the MENTIONS edges
    graph_link,     \* the last link_chunk_to_entity call and whether its MATCH found both nodes
    graph_call,     \* the GraphRetriever.search call that returned graph_results
    graph_results,  \* the list of GraphResult the last graph search returned
    ingested,       \* the extracted entities ingestion stored, each with the id it was given
    query_request,  \* hybrid_search: the request, the retrievers of app_state and what their searches do
    query_response, \* hybrid_search: the response, or the HTTP error raised
    query_errors,   \* the error responses given over the BM25 index, each with what was indexed then
    app_state,      \* main.app_state: what startup configured, 'documents', 'ingestion_reset_done'
    chunk_file,     \* the JSON list of chunks at ChunkStore.path (empty when the file is absent)
    bm25_index,     \* the documents of app_state['bm25_retriever']
    qdrant_points,  \* the chunk ids the dense index holds (Qdrant points, or the in-memory ids)
    neo4j_chunks,   \* the chunk ids of the Chunk nodes of the graph database
    ingest_streams, \* /ingest/stream: where the generator of each upload stands
    store_result    \* what the last finished request on the stores answered or observed

fusionVars == <<results_dict, fusion_call, fused>>
bm25Vars == <<documents, doc_ids, tokenized_corpus, bm25, bm25_call, bm25_results,
              use_nltk, bm25_prev, bm25_last>>
okapiVars == <<okapi_corpus, okapi_edit>>
graphVars == <<graph_documents, graph_chunks, graph_entities, graph_mentions,
               graph_link, graph_call, graph_results>>
ingestVars == <<ingested>>
queryVars == <<query_request, query_response, query_errors>>
storeVars == <<app_state, chunk_file, bm25_index, qdrant_points, neo4j_chunks,
               ingest_streams, store_result>>
nonFusionVars == <<bm25Vars, okapiVars, graphVars, ingestVars, queryVars, storeVars>>
nonBM25Vars == <<fusionVars, okapiVars, graphVars, ingestVars, queryVars, storeVars>>
nonOkapiVars == <<fusionVars, bm25Vars, graphVars, ingestVars, queryVars, storeVars>>
nonGraphVars == <<fusionVars, bm25Vars, okapiVars, ingestVars, queryVars, storeVars>>
nonIngestVars == <<fusionVars, bm25Vars, okapiVars, queryVars, storeVars>>
nonQueryVars == <<fusionVars, bm25Vars, okapiVars, graphVars, ingestVars, storeVars>>
nonStoreVars == <<fusionVars, bm25Vars, okapiVars, graphVars, ingestVars, queryVars>>
vars == <<fusionVars, bm25Vars, okapiVars, graphVars, ingestVars, queryVars, storeVars>>

(***************************************************************************)
(* Bounds of the model.                                                    *)
(***************************************************************************)
MaxLen == 3         \* longest result list of one method
MaxResults == 4     \* results over all the lists of one results_dict
MaxTopK == 3        \* largest top_k a caller passes
MaxDocs == 3        \* documents in one indexed corpus
MaxScoreDocs == 3   \* documents in one scored corpus
MaxDocLen == 2      \* tokens in one document of a scored corpus
MaxLinks == 3       \* MENTIONS edges of a graph that is searched
MaxGraphTopK == 2   \* largest top_k of a graph search
MaxIngests == 2     \* documents ingested
MaxExtracted == 2   \* entities extracted from one chunk
MaxQueries == 2     \* requests answered over one BM25 retriever
MaxLimit == 2       \* largest limit of GET /chunks

(***************************************************************************)
(* Values.                                                                 *)
(***************************************************************************)
None == "None"
MethodOrder == <<"bm25", "dense", "graph">>
Methods == {MethodOrder[i] : i \in 1..Len(MethodOrder)}
MethodIndexOf == [m \in Methods |-> CHOOSE i \in 1..Len(MethodOrder) : MethodOrder[i] = m]
MethodIndex(m) == MethodIndexOf[m]
ChunkIds == {"c1", "c2", "c3"}
Languages == <<"en", "es">>
RRFKValues == {1, 60}
WeightMaps == { [m \in {"bm25", "dense"} |-> IF m = "bm25" THEN 2 ELSE 1],
                [m \in Methods |-> IF m = "graph" THEN 0 ELSE IF m = "dense" THEN 0 - 1 ELSE 1] }

Truthy(x) == x # None /\ x # ""
Min(a, b) == IF a < b THEN a ELSE b

RECURSIVE GCD(_, _)
GCD(a, b) == IF b = 0 THEN a ELSE GCD(b, a % b)
LCM(a, b) == (a \div GCD(a, b)) * b

\* Denominator of the RRF scores for parameter k: lcm(k+1, ..., k+MaxLen).
RECURSIVE RRFScaleUpTo(_, _)
RRFScaleUpTo(k, n) == IF n = 0 THEN 1 ELSE LCM(RRFScaleUpTo(k, n - 1), k + n)
RRFScaleOf == [k \in RRFKValues |-> RRFScaleUpTo(k, MaxLen)]
RRFScale(k) == RRFScaleOf[k]

(***************************************************************************)
(* Result objects of the three retrievers (BM25Result, DenseResult,        *)
(* GraphResult).  A BM25Result has no chunk_id attribute: getattr gives    *)
(* None, and its doc_id is the chunk id; a DenseResult has doc_id =        *)
(* chunk_id; a GraphResult has the parent document as doc_id.  The lists   *)
(* the fusion functions are given here are score-descending; every         *)
(* occurrence carries its own text and score, so that the occurrence a     *)
(* fused result was built from can be told.  The rank a BM25Result reports *)
(* is its rank before the language filter: here every other hit of the     *)
(* unfiltered list was filtered out (ranks 1, 3, 5, ...).                  *)
(***************************************************************************)
TopScore == [m \in Methods |-> IF m = "bm25" THEN 2 ELSE IF m = "dense" THEN 4 ELSE 3]

MethodResult(method, pos, id) ==
    [ chunk_id |-> IF method = "bm25" THEN None ELSE id,
      doc_id   |-> IF method = "graph" THEN "d1" ELSE id,
      score    |-> TopScore[method] - pos,
      rank     |-> IF method = "bm25" THEN 2 * pos - 1 ELSE pos,
      text     |-> <<method, pos>>,
      language |-> Languages[((MethodIndex(method) + pos) % 2) + 1] ]

FusedResult(doc_id, chunk_id, rrf_score, rank, text, language, method_scores, method_ranks) ==
    [ doc_id |-> doc_id, chunk_id |-> chunk_id, rrf_score |-> rrf_score, rank |-> rank,
      text |-> text, language |-> language,
      method_scores |-> method_scores, method_ranks |-> method_ranks ]

(***************************************************************************)
(* Python helpers.                                                         *)
(***************************************************************************)
EmptyDict == [x \in {} |-> 0]
DictSet(d, key, value) == [x \in (DOMAIN d) \cup {key} |-> IF x = key THEN value ELSE d[x]]
DictGet(d, key, default) == IF key \in DOMAIN d THEN d[key] ELSE default

\* Faulty variant of SliceTo: seq[:n + 1]
SliceToInclusive(seq, n) ==
    SubSeq(seq, 1, IF n + 1 < Len(seq) THEN n + 1 ELSE Len(seq))

\* seq[:n]
SliceTo(seq, n) ==
    LET m == IF n >= 0 THEN (IF n < Len(seq) THEN n ELSE Len(seq))
             ELSE (IF Len(seq) + n > 0 THEN Len(seq) + n ELSE 0)
    IN  SubSeq(seq, 1, m)

\* Faulty variant of InsertByScoreDesc: an item goes in front of the items of equal key
\* (an ascending sort that is reversed afterwards).
RECURSIVE InsertByScoreDescUnstable(_, _)
InsertByScoreDescUnstable(sorted, item) ==
    IF sorted = <<>> THEN <<item>>
    ELSE IF Head(sorted)[2] > item[2]
         THEN <<Head(sorted)>> \o InsertByScoreDescUnstable(Tail(sorted), item)
         ELSE <<item>> \o sorted

\* One insertion of sorted(..., key=lambda x: x[1], reverse=True): the sort is
\* stable, so an item goes behind every item whose key is not smaller.
RECURSIVE InsertByScoreDesc(_, _)
InsertByScoreDesc(sorted, item) ==
    IF sorted = <<>> THEN <<item>>
    ELSE IF Head(sorted)[2] >= item[2]
         THEN <<Head(sorted)>> \o InsertByScoreDesc(Tail(sorted), item)
         ELSE <<item>> \o sorted

\* Faulty variant of SortedByScoreDesc: reverse=True left out (ascending, stable).
RECURSIVE SortedByScoreAsc(_)
SortedByScoreAsc(items) ==
    LET RECURSIVE Insert(_, _)
        Insert(sorted, item) ==
            IF sorted = <<>> THEN <<item>>
            ELSE IF Head(sorted)[2] <= item[2]
                 THEN <<Head(sorted)>> \o Insert(Tail(sorted), item)
                 ELSE <<item>> \o sorted
    IN  IF items = <<>> THEN <<>>
        ELSE Insert(SortedByScoreAsc(SubSeq(items, 1, Len(items) - 1)), items[Len(items)])

RECURSIVE SortedByScoreDesc(_)
SortedByScoreDesc(items) ==
    IF items = <<>> THEN <<>>
    ELSE InsertByScoreDesc(SortedByScoreDesc(SubSeq(items, 1, Len(items) - 1)),
                           items[Len(items)])

\* doc_id = getattr(result, 'chunk_id', None) or getattr(result, 'doc_id', None)
ResultId(result) == IF Truthy(result.chunk_id) THEN result.chunk_id ELSE result.doc_id

\* dict.items() of a dict whose keys were inserted in the order `keys`
Items(keys, d) == [i \in 1..Len(keys) |-> <<keys[i], d[keys[i]]>>]

(***************************************************************************)
(* reciprocal_rank_fusion                                                  *)
(***************************************************************************)
\* Faulty variant of RRFContribution: enumerate(results) without start=1
RRFContributionZeroBased(k, rank) == RRFScale(k) \div (k + rank - 1)

RRFContribution(k, rank) == RRFScale(k) \div (k + rank)     \* 1.0 / (k + rank)

EmptyAcc == [ keys |-> <<>>, scores |-> EmptyDict, method_ranks |-> EmptyDict,
              method_scores |-> EmptyDict, doc_info |-> EmptyDict ]

\* Faulty variant of StoreDocInfo: the `if doc_id not in doc_info` guard left out
StoreDocInfoOverwrite(doc_info, doc_id, result) ==
    DictSet(doc_info, doc_id,
            [ text |-> result.text, language |-> result.language,
              doc_id |-> result.doc_id, chunk_id |-> doc_id ])

\* if doc_id not in doc_info: doc_info[doc_id] = {...}
StoreDocInfo(doc_info, doc_id, result) ==
    IF doc_id \in DOMAIN doc_info THEN doc_info
    ELSE DictSet(doc_info, doc_id,
                 [ text |-> result.text, language |-> result.language,
                   doc_id |-> result.doc_id, chunk_id |-> doc_id ])

\* Faulty variant of RRFAccumulate: method_ranks takes the rank the result object reports
RRFAccumulateReportedRank(acc, method_name, rank, result, k) ==
    LET doc_id == ResultId(result)
        seen   == doc_id \in DOMAIN acc.scores
    IN  IF ~Truthy(doc_id) THEN acc
        ELSE [ keys   |-> IF seen THEN acc.keys ELSE Append(acc.keys, doc_id),
               scores |-> DictSet(acc.scores, doc_id,
                                  DictGet(acc.scores, doc_id, 0) + RRFContribution(k, rank)),
               method_ranks  |-> DictSet(acc.method_ranks, doc_id,
                                  DictSet(DictGet(acc.method_ranks, doc_id, EmptyDict),
                                          method_name, result.rank)),
               method_scores |-> DictSet(acc.method_scores, doc_id,
                                  DictSet(DictGet(acc.method_scores, doc_id, EmptyDict),
                                          method_name, result.score)),
               doc_info |-> StoreDocInfo(acc.doc_info, doc_id, result) ]

\* The body of the inner loop for one result at 1-based position `rank`.
RRFAccumulate(acc, method_name, rank, result, k) ==
    LET doc_id == ResultId(result)
        seen   == doc_id \in DOMAIN acc.scores
    IN  IF ~Truthy(doc_id) THEN acc
        ELSE [ keys   |-> IF seen THEN acc.keys ELSE Append(acc.keys, doc_id),
               scores |-> DictSet(acc.scores, doc_id,
                                  DictGet(acc.scores, doc_id, 0) + RRFContribution(k, rank)),
               method_ranks  |-> DictSet(acc.method_ranks, doc_id,
                                  DictSet(DictGet(acc.method_ranks, doc_id, EmptyDict),
                                          method_name, rank)),
               method_scores |-> DictSet(acc.method_scores, doc_id,
                                  DictSet(DictGet(acc.method_scores, doc_id, EmptyDict),
                                          method_name, result.score)),
               doc_info |-> StoreDocInfo(acc.doc_info, doc_id, result) ]

RECURSIVE RRFOverResults(_, _, _, _, _)
RRFOverResults(acc, method_name, results, rank, k) ==
    IF rank > Len(results) THEN acc
    ELSE RRFOverResults(RRFAccumulate(acc, method_name, rank, results[rank], k),
                        method_name, results, rank + 1, k)

RECURSIVE RRFOverMethods(_, _, _, _)
RRFOverMethods(acc, dict, i, k) ==
    IF i > Len(dict) THEN acc
    ELSE RRFOverMethods(RRFOverResults(acc, dict[i].method, dict[i].results, 1, k),
                        dict, i + 1, k)

BuildFused(acc, sorted_results, with_ranks) ==
    [ final_rank \in 1..Len(sorted_results) |->
        LET doc_id == sorted_results[final_rank][1]
            info   == acc.doc_info[doc_id]
        IN  FusedResult(info.doc_id, info.chunk_id, sorted_results[final_rank][2],
                        final_rank, info.text, info.language,
                        acc.method_scores[doc_id],
                        IF with_ranks THEN acc.method_ranks[doc_id] ELSE EmptyDict) ]

reciprocal_rank_fusion(dict, k, top_k) ==
    LET acc == RRFOverMethods(EmptyAcc, dict, 1, k)
        sorted_results == SliceTo(SortedByScoreDesc(Items(acc.keys, acc.scores)), top_k)
    IN  BuildFused(acc, sorted_results, TRUE)

(***************************************************************************)
(* weighted_fusion                                                         *)
(***************************************************************************)
\* Faulty variant of WeightedAccumulate: the weight is left out of the sum
WeightedAccumulateUnweighted(acc, method_name, weight, result) ==
    LET doc_id == ResultId(result)
        seen   == doc_id \in DOMAIN acc.scores
    IN  IF ~Truthy(doc_id) THEN acc
        ELSE [ keys   |-> IF seen THEN acc.keys ELSE Append(acc.keys, doc_id),
               scores |-> DictSet(acc.scores, doc_id,
                                  DictGet(acc.scores, doc_id, 0) + result.score),
               method_ranks  |-> acc.method_ranks,
               method_scores |-> DictSet(acc.method_scores, doc_id,
                                  DictSet(DictGet(acc.method_scores, doc_id, EmptyDict),
                                          method_name, result.score)),
               doc_info |-> StoreDocInfo(acc.doc_info, doc_id, result) ]

\* The body of the inner loop of weighted_fusion for one result.
WeightedAccumulate(acc, method_name, weight, result) ==
    LET doc_id == ResultId(result)
        seen   == doc_id \in DOMAIN acc.scores
    IN  IF ~Truthy(doc_id) THEN acc
        ELSE [ keys   |-> IF seen THEN acc.keys ELSE Append(acc.keys, doc_id),
               scores |-> DictSet(acc.scores, doc_id,
                                  DictGet(acc.scores, doc_id, 0) + weight * result.score),
               method_ranks  |-> acc.method_ranks,
               method_scores |-> DictSet(acc.method_scores, doc_id,
                                  DictSet(DictGet(acc.method_scores, doc_id, EmptyDict),
                                          method_name, result.score)),
               doc_info |-> StoreDocInfo(acc.doc_info, doc_id, result) ]

RECURSIVE WeightedOverResults(_, _, _, _, _)
WeightedOverResults(acc, method_name, weight, results, i) ==
    IF i > Len(results) THEN acc
    ELSE WeightedOverResults(WeightedAccumulate(acc, method_name, weight, results[i]),
                             method_name, weight, results, i + 1)

RECURSIVE WeightedOverMethods(_, _, _, _)
WeightedOverMethods(acc, dict, i, weights) ==
    IF i > Len(dict) THEN acc
    ELSE WeightedOverMethods(
             WeightedOverResults(acc, dict[i].method, DictGet(weights, dict[i].method, 1),
                                 dict[i].results, 1),
             dict, i + 1, weights)

weighted_fusion(dict, weights, top_k) ==
    LET acc == WeightedOverMethods(EmptyAcc, dict, 1, weights)
        sorted_results == SliceTo(SortedByScoreDesc(Items(acc.keys, acc.scores)), top_k)
    IN  BuildFused(acc, sorted_results, FALSE)

(***************************************************************************)
(* The fusion specification: a caller fills results_dict with the lists of *)
(* the methods it ran (bm25, dense, graph, in that order, any subset) and  *)
(* calls one of the two fusion functions.                                  *)
(***************************************************************************)
TotalResults(dict) ==
    LET RECURSIVE Sum(_)
        Sum(i) == IF i = 0 THEN 0 ELSE Sum(i - 1) + Len(dict[i].results)
    IN  Sum(Len(dict))

LastMethodIndex(dict) ==
    IF dict = <<>> THEN 0 ELSE MethodIndex(dict[Len(dict)].method)

ResultList(method, ids) ==
    [pos \in 1..Len(ids) |-> MethodResult(method, pos, ids[pos])]

FusionInit ==
    /\ results_dict = <<>>
    /\ fusion_call = [fn |-> "none"]
    /\ fused = <<>>

\* results_dict[method] = results
StoreResults(method, ids) ==
    /\ fusion_call.fn = "none"
    /\ MethodIndex(method) > LastMethodIndex(results_dict)
    /\ TotalResults(results_dict) + Len(ids) <= MaxResults
    /\ results_dict' = Append(results_dict,
                              [method |-> method, results |-> ResultList(method, ids)])
    /\ UNCHANGED <<fusion_call, fused>>
    /\ UNCHANGED nonFusionVars

CallRRF(k, top_k) ==
    /\ fusion_call.fn = "none"
    /\ fusion_call' = [fn |-> "rrf", k |-> k, top_k |-> top_k]
    /\ fused' = reciprocal_rank_fusion(results_dict, k, top_k)
    /\ UNCHANGED results_dict
    /\ UNCHANGED nonFusionVars

CallWeighted(weights, top_k) ==
    /\ fusion_call.fn = "none"
    /\ fusion_call' = [fn |-> "weighted", weights |-> weights, top_k |-> top_k]
    /\ fused' = weighted_fusion(results_dict, weights, top_k)
    /\ UNCHANGED results_dict
    /\ UNCHANGED nonFusionVars

IdLists == UNION {[1..n -> ChunkIds] : n \in 0..MaxLen}

FusionNext ==
    \/ \E method \in Methods, ids \in IdLists : StoreResults(method, ids)
    \/ \E k \in RRFKValues, top_k \in 0..MaxTopK : CallRRF(k, top_k)
    \/ \E weights \in WeightMaps, top_k \in 0..MaxTopK : CallWeighted(weights, top_k)

(***************************************************************************)
(* MultilingualTokenizer.  A text is the sequence of its whitespace-       *)
(* separated words.  The two segmenters differ: word_tokenize keeps a      *)
(* hyphenated word whole and gives punctuation as a token of its own; the  *)
(* \w+ regex splits the hyphenated word and drops punctuation.  "!"        *)
(* stands for a punctuation mark, "machine-learning" for a hyphenated word.*)
(***************************************************************************)
Lower(word) ==
    CASE word = "Machine"  -> "machine"
      [] word = "Learning" -> "learning"
      [] word = "The"      -> "the"
      [] word = "A"        -> "a"
      [] OTHER             -> word

\* the 'ar' preprocessing: diacritics removed, alef variants and teh marbuta folded
ArabicNormalize(word) ==
    CASE word = "<alef-hamza>"  -> "<alef>"
      [] word = "<teh-marbuta>" -> "<heh>"
      [] OTHER                   -> word

StopWords(language) ==
    CASE language = "en" -> {"the", "a", "an", "and", "of", "to", "in", "is", "for", "on"}
      [] language = "es" -> {"el", "la", "los", "las", "de", "y", "en", "que", "es"}
      [] language = "ar" -> {"<waw>", "<fi>", "<min>"}
      [] OTHER           -> {}

IsAlnum(word) ==
    word \notin {"!", "machine-learning", "<alef-hamza>", "<teh-marbuta>", "<alef>", "<heh>"}

\* word_tokenize(text) on one word
WordTokenize(word) == <<word>>
\* re.findall(r"\w+", text, flags=re.UNICODE) on one word
RegexFindall(word) ==
    CASE word = "machine-learning" -> <<"machine", "learning">>
      [] word = "!"                -> <<>>
      [] OTHER                     -> <<word>>

RECURSIVE Segment(_, _)
Segment(words, nltk) ==
    IF words = <<>> THEN <<>>
    ELSE (IF nltk THEN WordTokenize(Head(words)) ELSE RegexFindall(Head(words)))
         \o Segment(Tail(words), nltk)

RECURSIVE FilterTokens(_, _)
FilterTokens(tokens, language) ==
    IF tokens = <<>> THEN <<>>
    ELSE LET rest == FilterTokens(Tail(tokens), language)
         IN  IF IsAlnum(Head(tokens)) /\ Head(tokens) \notin StopWords(language)
             THEN <<Head(tokens)>> \o rest
             ELSE rest

\* tokenize(text, language); `nltk` tells whether word_tokenize produced the tokens
\* (self._use_nltk is set and word_tokenize did not raise LookupError) or the regex
tokenize(text, language, nltk) ==
    LET lowered == [i \in 1..Len(text) |-> Lower(text[i])]
        cleaned == IF language = "ar"
                   THEN [i \in 1..Len(lowered) |-> ArabicNormalize(lowered[i])]
                   ELSE lowered
    IN  FilterTokens(Segment(cleaned, nltk), language)

(***************************************************************************)
(* BM25Retriever.  The BM25Okapi model of the rank_bm25 library is built   *)
(* from the tokenized corpus at index time; its get_scores is a fixed      *)
(* function of the tokenized query from then on.  The library is not part  *)
(* of the repository: the model object carries an arbitrary score vector   *)
(* for every tokenized query, chosen when the model is built.              *)
(***************************************************************************)
ChunkIdSeq == <<"c1", "c2", "c3", "c4">>
DocTexts == << <<"Machine", "learning", "is", "great">>,
               <<"deep", "learning", "uses", "neural", "networks", "!">>,
               <<"the", "cats", "are", "animals">>,
               <<"el", "aprendizaje", "machine">> >>
DocLanguages == {"en", "es"}
\* the languages each chunk of a corpus is declared with
DocLanguageChoices == <<DocLanguages, DocLanguages, DocLanguages, {"es"}>>
SearchLanguages == {"en", "es", None}
Queries == { <<"Machine", "Learning">>, <<"machine-learning">>, <<"A", "!">>, <<>> }
ScoreValues == {0 - 1, 0, 1}
MinScores == {0, 0 - 999}

NoBM25 == [is_none |-> TRUE]
TokenizedQueries ==
    {tokenize(q, l, n) : q \in Queries, l \in SearchLanguages, n \in BOOLEAN} \ {<<>>}
BM25Okapi(corpus, get_scores) ==
    [is_none |-> FALSE, corpus_size |-> Len(corpus), get_scores |-> get_scores]

BM25Result(doc_id, score, rank, text, language) ==
    [doc_id |-> doc_id, score |-> score, rank |-> rank, text |-> text, language |-> language]

\* Faulty variant of BM25BuildResults: the rank is numbered over the results kept
RECURSIVE BM25BuildResultsRenumbered(_, _, _, _, _, _)
BM25BuildResultsRenumbered(docs, top_indices, scores, language, min_score, rank) ==
    IF rank = 0 THEN <<>>
    ELSE LET results == BM25BuildResultsRenumbered(docs, top_indices, scores, language,
                                                   min_score, rank - 1)
             idx     == top_indices[rank]
             doc     == docs[idx]
         IN  IF scores[idx] > min_score
             THEN IF Truthy(language) /\ doc.language # language
                  THEN results
                  ELSE Append(results, BM25Result(doc.id, scores[idx], Len(results) + 1,
                                                  doc.text, doc.language))
             ELSE results

\* Faulty variant of BM25BuildResults: score >= min_score, as the log line has it
RECURSIVE BM25BuildResultsNotStrict(_, _, _, _, _, _)
BM25BuildResultsNotStrict(docs, top_indices, scores, language, min_score, rank) ==
    IF rank = 0 THEN <<>>
    ELSE LET results == BM25BuildResultsNotStrict(docs, top_indices, scores, language,
                                                  min_score, rank - 1)
             idx     == top_indices[rank]
             doc     == docs[idx]
         IN  IF scores[idx] >= min_score
             THEN IF Truthy(language) /\ doc.language # language
                  THEN results
                  ELSE Append(results, BM25Result(doc.id, scores[idx], rank,
                                                  doc.text, doc.language))
             ELSE results

\* for rank, idx in enumerate(top_indices, start=1): ...   (the loop up to `rank`)
RECURSIVE BM25BuildResults(_, _, _, _, _, _)
BM25BuildResults(docs, top_indices, scores, language, min_score, rank) ==
    IF rank = 0 THEN <<>>
    ELSE LET results == BM25BuildResults(docs, top_indices, scores, language,
                                         min_score, rank - 1)
             idx     == top_indices[rank]
             doc     == docs[idx]
         IN  IF scores[idx] > min_score
             THEN IF Truthy(language) /\ doc.language # language
                  THEN results
                  ELSE Append(results, BM25Result(doc.id, scores[idx], rank,
                                                  doc.text, doc.language))
             ELSE results

\* sorted(range(len(scores)), key=lambda i: scores[i], reverse=True)[:top_k]
TopIndices(scores, top_k) ==
    LET sorted == SortedByScoreDesc([i \in 1..Len(scores) |-> <<i, scores[i]>>])
    IN  SliceTo([r \in 1..Len(sorted) |-> sorted[r][1]], top_k)

search(query, top_k, language, min_score, nltk) ==
    IF bm25 = NoBM25 \/ documents = <<>> THEN <<>>
    ELSE LET tokenized_query == tokenize(query, language, nltk)
         IN  IF tokenized_query = <<>> THEN <<>>
             ELSE LET scores      == bm25.get_scores[tokenized_query]
                      top_indices == TopIndices(scores, top_k)
                  IN  BM25BuildResults(documents, top_indices, scores, language,
                                       min_score, Len(top_indices))

\* Faulty variant of SearchRaises: the `self.bm25 is None or not self.documents` test
\* left out
SearchRaisesUnguarded(query, language, nltk) ==
    /\ tokenize(query, language, nltk) # <<>>
    /\ bm25 = NoBM25

\* search raises: it gets past both early returns and calls get_scores on None
SearchRaises(query, language, nltk) ==
    /\ ~(bm25 = NoBM25 \/ documents = <<>>)
    /\ tokenize(query, language, nltk) # <<>>
    /\ bm25 = NoBM25

\* search calls tokenize (it is past the first early return)
SearchTokenizes == ~(bm25 = NoBM25 \/ documents = <<>>)

NoSearch == [fn |-> "none"]

BM25Init ==
    /\ documents = <<>>
    /\ doc_ids = <<>>
    /\ tokenized_corpus = <<>>
    /\ bm25 = NoBM25
    /\ bm25_call = NoSearch
    /\ bm25_results = <<>>
    /\ use_nltk = TRUE
    /\ bm25_prev = NoSearch
    /\ bm25_last = NoSearch

\* The except branch of MultilingualTokenizer.__init__: the NLTK resources are
\* missing.  It is part of the construction: it is taken before the first call
\* of tokenize (search does not tokenize while nothing is indexed).
TokenizerFallback ==
    /\ bm25_call = NoSearch
    /\ use_nltk /\ bm25 = NoBM25 /\ doc_ids = <<>>
    /\ use_nltk' = FALSE
    /\ UNCHANGED <<documents, doc_ids, tokenized_corpus, bm25, bm25_call, bm25_results,
                   bm25_prev, bm25_last>>
    /\ UNCHANGED nonBM25Vars

\* Faulty variant of IndexDocuments: no reset on an empty list, new documents are
\* added to the indexed ones
IndexDocumentsIncremental(docs, get_scores, switch_at) ==
    /\ bm25_call = NoSearch
    /\ switch_at \in 1..(Len(docs) + 1)
    /\ ~use_nltk => switch_at = Len(docs) + 1
    /\ IF docs = <<>>
       THEN UNCHANGED <<documents, tokenized_corpus, doc_ids, bm25, use_nltk>>
       ELSE /\ documents' = documents \o docs
            /\ doc_ids' = doc_ids \o [i \in 1..Len(docs) |-> docs[i].id]
            /\ tokenized_corpus' = tokenized_corpus \o
                  [i \in 1..Len(docs) |->
                      tokenize(docs[i].text, docs[i].language, use_nltk /\ i < switch_at)]
            /\ use_nltk' = (use_nltk /\ switch_at = Len(docs) + 1)
            /\ bm25' = BM25Okapi(tokenized_corpus',
                                 [q \in DOMAIN get_scores |->
                                     (IF bm25 = NoBM25 THEN <<>> ELSE bm25.get_scores[q])
                                     \o get_scores[q]])
    /\ bm25_call' = NoSearch
    /\ bm25_results' = <<>>
    /\ bm25_prev' = NoSearch
    /\ bm25_last' = [fn |-> "index_documents", documents |-> docs]
    /\ UNCHANGED nonBM25Vars

\* index_documents(documents); index(documents) is an alias that calls it.
\* word_tokenize raises LookupError at document `switch_at` (at none when switch_at
\* is Len(docs) + 1): that document and the later ones are split by the regex.
IndexDocuments(docs, get_scores, switch_at) ==
    /\ bm25_call = NoSearch
    /\ switch_at \in 1..(Len(docs) + 1)
    /\ ~use_nltk => switch_at = Len(docs) + 1
    /\ IF docs = <<>>
       THEN /\ documents' = <<>>
            /\ tokenized_corpus' = <<>>
            /\ doc_ids' = <<>>
            /\ bm25' = NoBM25
            /\ UNCHANGED use_nltk
       ELSE /\ documents' = docs
            /\ doc_ids' = [i \in 1..Len(docs) |-> docs[i].id]
            /\ tokenized_corpus' =
                  [i \in 1..Len(docs) |->
                      tokenize(docs[i].text, docs[i].language, use_nltk /\ i < switch_at)]
            /\ use_nltk' = (use_nltk /\ switch_at = Len(docs) + 1)
            /\ bm25' = BM25Okapi(tokenized_corpus', get_scores)
    /\ bm25_call' = NoSearch
    /\ bm25_results' = <<>>
    /\ bm25_prev' = NoSearch
    /\ bm25_last' = [fn |-> "index_documents", documents |-> docs]
    /\ UNCHANGED nonBM25Vars

ClearIndex ==
    /\ bm25_call = NoSearch
    /\ documents' = <<>>
    /\ tokenized_corpus' = <<>>
    /\ bm25' = NoBM25
    /\ UNCHANGED <<doc_ids, use_nltk>>
    /\ bm25_call' = NoSearch
    /\ bm25_results' = <<>>
    /\ bm25_prev' = NoSearch
    /\ bm25_last' = [fn |-> "clear_index"]
    /\ UNCHANGED nonBM25Vars

\* One call of search.  `lookup_error`: word_tokenize raises LookupError in this call
\* (possible only while _use_nltk is set and the call gets to tokenize).
SearchCall(query, top_k, language, min_score, lookup_error) ==
    /\ lookup_error => (use_nltk /\ SearchTokenizes)
    /\ LET nltk == use_nltk /\ ~lookup_error
       IN  /\ bm25_results' = search(query, top_k, language, min_score, nltk)
           /\ bm25_call' = [fn |-> "search", query |-> query, top_k |-> top_k,
                            language |-> language, min_score |-> min_score,
                            nltk |-> nltk,
                            raised |-> SearchRaises(query, language, nltk)]
    /\ use_nltk' = (use_nltk /\ ~lookup_error)
    /\ UNCHANGED <<documents, doc_ids, tokenized_corpus, bm25, bm25_last>>
    /\ UNCHANGED nonBM25Vars

Search(query, top_k, language, min_score, lookup_error) ==
    /\ bm25_call = NoSearch
    /\ SearchCall(query, top_k, language, min_score, lookup_error)
    /\ bm25_prev' = NoSearch

\* The search that has just returned is called again with the same arguments.
SearchAgain(lookup_error) ==
    /\ bm25_call # NoSearch
    /\ bm25_prev = NoSearch
    /\ SearchCall(bm25_call.query, bm25_call.top_k, bm25_call.language,
                  bm25_call.min_score, lookup_error)
    /\ bm25_prev' = [call |-> bm25_call, results |-> bm25_results]

\* The caller is done with the list the search returned; the next call can start.
Discard ==
    /\ bm25_call # NoSearch
    /\ bm25_call' = NoSearch
    /\ bm25_results' = <<>>
    /\ bm25_prev' = NoSearch
    /\ UNCHANGED <<documents, doc_ids, tokenized_corpus, bm25, use_nltk, bm25_last>>
    /\ UNCHANGED nonBM25Vars

\* the corpora: chunks c1, c2, ... in order, each with a declared language
Corpora ==
    UNION { { [i \in 1..n |-> [id |-> ChunkIdSeq[i], text |-> DocTexts[i],
                                language |-> langs[i]]]
              : langs \in {l \in [1..n -> DocLanguages] :
                              \A i \in 1..n : l[i] \in DocLanguageChoices[i]} }
            : n \in 0..MaxDocs }
\* get_scores adds, per query token, idf * f(tf): a document that holds no token
\* of the query scores exactly 0.
HoldsTokenOf(tokens, tokenized_query) ==
    \E i \in 1..Len(tokens), j \in 1..Len(tokenized_query) : tokens[i] = tokenized_query[j]
\* the score tables a model built from `docs` can have, whichever segmenter split them
ScoreTables(docs) ==
    { t \in [TokenizedQueries -> [1..Len(docs) -> ScoreValues]] :
        \A q \in TokenizedQueries, i \in 1..Len(docs) :
            (\A n \in BOOLEAN :
                ~HoldsTokenOf(tokenize(docs[i].text, docs[i].language, n), q))
            => t[q][i] = 0 }

BM25Next ==
    \/ TokenizerFallback
    \/ \E docs \in Corpora : \E get_scores \in ScoreTables(docs) :
          \E switch_at \in 1..(Len(docs) + 1) :
             IndexDocuments(docs, get_scores, switch_at)
    \/ ClearIndex
    \/ \E query \in Queries, top_k \in 0..MaxTopK, language \in SearchLanguages,
          min_score \in MinScores, lookup_error \in BOOLEAN :
          Search(query, top_k, language, min_score, lookup_error)
    \/ Discard

\* the same, with every search that returned possibly repeated at once
BM25RepeatNext ==
    \/ BM25Next
    \/ \E lookup_error \in BOOLEAN : SearchAgain(lookup_error)

(***************************************************************************)
(* The Okapi BM25 score of one document for a one-term query, as the       *)
(* formula of the retriever gives it with k1 = 3/2 and b = 3/4.  The       *)
(* term-frequency factor is an exact fraction <<num, den>>.  An IDF is the *)
(* record [arg |-> <<P, Q>>, div |-> D] standing for ln(P / Q) / D: its    *)
(* sign is the sign of P - Q, and two IDFs with the same record are equal. *)
(***************************************************************************)
K1Num == 3
K1Den == 2
BNum == 3
BDen == 4
QueryTerm == "q"
OkapiTokens == <<"q", "x", "y">>
OkapiTokenSet == {OkapiTokens[i] : i \in 1..Len(OkapiTokens)}

\* f(qi, d): the occurrences of a term in a tokenized document
TermFrequency(term, doc) == Cardinality({i \in 1..Len(doc) : doc[i] = term})

\* the number of documents that hold the term
DocumentFrequency(term, corpus) ==
    Cardinality({d \in 1..Len(corpus) : TermFrequency(term, corpus[d]) > 0})

RECURSIVE TotalLength(_)
TotalLength(corpus) ==
    IF corpus = <<>> THEN 0 ELSE Len(Head(corpus)) + TotalLength(Tail(corpus))

\* the terms of the corpus
CorpusTerms(corpus) == {t \in OkapiTokenSet : DocumentFrequency(t, corpus) > 0}

\* Faulty variant of TermFrequencyFactor: a factor that falls as the term
\* frequency grows
TermFrequencyFactorInverse(f, doc_len, corpus_size, total) ==
    IF f = 0 THEN <<0, 1>>
    ELSE << (K1Num + K1Den) * BDen * total,
            f * (f * K1Den * BDen * total
                 + K1Num * ((BDen - BNum) * total + BNum * doc_len * corpus_size)) >>

\* (f x (k1 + 1)) / (f + k1 x (1 - b + b x |d| / avgdl)), avgdl = total / N,
\* numerator and denominator multiplied by K1Den x BDen x total
TermFrequencyFactor(f, doc_len, corpus_size, total) ==
    << f * (K1Num + K1Den) * BDen * total,
       f * K1Den * BDen * total
          + K1Num * ((BDen - BNum) * total + BNum * doc_len * corpus_size) >>

\* ln(N - n + 0.5) - ln(n + 0.5), the smoothed Robertson-Sparck-Jones IDF
SmoothedIDF(term, corpus) ==
    [arg |-> << 2 * (Len(corpus) - DocumentFrequency(term, corpus)) + 1,
                2 * DocumentFrequency(term, corpus) + 1 >>,
     div |-> 1]

RECURSIVE ProductOver(_, _, _)
ProductOver(terms, corpus, side) ==
    IF terms = {} THEN 1
    ELSE LET t == CHOOSE x \in terms : TRUE
         IN  SmoothedIDF(t, corpus).arg[side] * ProductOver(terms \ {t}, corpus, side)

\* epsilon x average_idf with epsilon = 1/4: the sum of the terms' IDFs is the
\* logarithm of the product of their arguments
IDFFloor(corpus) ==
    [arg |-> << ProductOver(CorpusTerms(corpus), corpus, 1),
                ProductOver(CorpusTerms(corpus), corpus, 2) >>,
     div |-> 4 * Cardinality(CorpusTerms(corpus))]

IDFSign(idf) ==
    IF idf.arg[1] > idf.arg[2] THEN 1 ELSE IF idf.arg[1] < idf.arg[2] THEN 0 - 1 ELSE 0

ZeroIDF == [arg |-> <<1, 1>>, div |-> 1]

\* the IDF the model uses for a term: 0 for a term the corpus does not hold,
\* the floor in place of a negative IDF
IDF(term, corpus) ==
    IF DocumentFrequency(term, corpus) = 0 THEN ZeroIDF
    ELSE IF IDFSign(SmoothedIDF(term, corpus)) < 0 THEN IDFFloor(corpus)
    ELSE SmoothedIDF(term, corpus)

\* get_scores([term])[d]: the IDF and the factor it is multiplied with
OkapiScore(term, corpus, d) ==
    [idf |-> IDF(term, corpus),
     factor |-> TermFrequencyFactor(TermFrequency(term, corpus[d]), Len(corpus[d]),
                                    Len(corpus), TotalLength(corpus))]

\* the sign of a - b for two fractions with positive denominators
CompareFractions(a, b) ==
    LET l == a[1] * b[2]
        r == b[1] * a[2]
    IN  IF l > r THEN 1 ELSE IF l < r THEN 0 - 1 ELSE 0

ScoreSign(s) == IF s.factor[1] = 0 THEN 0 ELSE IDFSign(s.idf)

\* the score s2 is certainly lower than the score s1
ScoreLower(s1, s2) ==
    \/ ScoreSign(s2) < ScoreSign(s1)
    \/ /\ s1.idf = s2.idf
       /\ IDFSign(s1.idf) * CompareFractions(s2.factor, s1.factor) < 0

\* the score s2 is certainly at least the score s1
ScoreNotLower(s1, s2) ==
    \/ ScoreSign(s2) > ScoreSign(s1)
    \/ ScoreSign(s2) = 0 /\ ScoreSign(s1) = 0
    \/ /\ s1.idf = s2.idf
       /\ IDFSign(s1.idf) * CompareFractions(s2.factor, s1.factor) >= 0

\* The score reads a document through its term frequencies and its length
\* only, so the documents of a corpus are given with their tokens in the
\* order of OkapiTokens.
TokenIndex(t) == CHOOSE i \in 1..Len(OkapiTokens) : OkapiTokens[i] = t
OkapiDocs ==
    { doc \in UNION { [1..n -> OkapiTokenSet] : n \in 1..MaxDocLen } :
        \A i \in 1..(Len(doc) - 1) : TokenIndex(doc[i]) <= TokenIndex(doc[i + 1]) }
\* a number per document, different for different documents
RECURSIVE DocCode(_)
DocCode(doc) ==
    IF doc = <<>> THEN 0
    ELSE TokenIndex(Head(doc)) + (Len(OkapiTokens) + 1) * DocCode(Tail(doc))

\* The score does not read the order of the documents either: the corpora
\* are given with their documents in the order of DocCode.
OkapiCorpora ==
    { corpus \in UNION { [1..n -> OkapiDocs] : n \in 1..MaxScoreDocs } :
        \A i \in 1..(Len(corpus) - 1) : DocCode(corpus[i]) <= DocCode(corpus[i + 1]) }
NoEdit == [doc |-> 0]

OkapiInit ==
    /\ okapi_corpus = <<>>
    /\ okapi_edit = NoEdit

\* BM25Okapi(tokenized_corpus, k1, b)
BuildOkapi ==
    /\ okapi_corpus = <<>>
    /\ \E corpus \in OkapiCorpora : okapi_corpus' = corpus
    /\ okapi_edit' = NoEdit
    /\ UNCHANGED nonOkapiVars

\* the same corpus with the non-query token at position pos of document doc
\* replaced by the query term, and the model built again
ReplaceByQueryTerm(doc, pos) ==
    /\ okapi_corpus # <<>>
    /\ okapi_edit = NoEdit
    /\ doc \in 1..Len(okapi_corpus)
    /\ pos \in 1..Len(okapi_corpus[doc])
    /\ okapi_corpus[doc][pos] # QueryTerm
    /\ okapi_corpus' = [okapi_corpus EXCEPT ![doc][pos] = QueryTerm]
    /\ okapi_edit' = [doc |-> doc, pos |-> pos, before |-> okapi_corpus]
    /\ UNCHANGED nonOkapiVars

OkapiNext ==
    \/ BuildOkapi
    \/ \E doc \in 1..MaxScoreDocs, pos \in 1..MaxDocLen : ReplaceByQueryTerm(doc, pos)

(***************************************************************************)
(* The graph store (Neo4jClient) and the GraphRetriever.  Confidences are  *)
(* in tenths, so a chunk's score is in hundredths.  A MENTIONS edge is a   *)
(* record [chunk, entity, confidence, n]: n numbers the edges of one       *)
(* (chunk, entity) pair.  ORDER BY ... LIMIT leaves the order of rows with *)
(* equal keys to the database: every order is possible.                    *)
(***************************************************************************)
GraphDocIds == {"d1"}
GraphChunkOrder == <<"c1", "c2">>
GraphChunkIds == {GraphChunkOrder[i] : i \in 1..Len(GraphChunkOrder)}
Confidences == {5, 10}
EntityCatalogue ==
    << [id |-> "e1", name |-> "Paris", language |-> "es", confidence |-> 10],
       [id |-> "e2", name |-> "Paris", language |-> "en", confidence |-> 10],
       [id |-> "e3", name |-> "Paris Hilton", language |-> "en", confidence |-> 8],
       [id |-> "e4", name |-> "Parisian", language |-> "en", confidence |-> 5],
       [id |-> "e5", name |-> "Paris Agreement", language |-> "en", confidence |-> 5] >>
GraphEntityIds == {EntityCatalogue[i].id : i \in 1..Len(EntityCatalogue)}
ExtractedNames == { <<>>, <<"Berlin">>, <<"Hilton">>, <<"Paris">>, <<"Paris", "Hilton">> }
GraphLanguages == {"en", "es", None}

\* the properties add_chunk sets on the Chunk node of an id
ChunkNode(id) ==
    [id |-> id, doc_id |-> "d1", language |-> IF id = "c1" THEN "en" ELSE "es"]

\* e.name CONTAINS $name: substring, case-sensitive
Contains(name, part) ==
    \/ name = part
    \/ name \in {"Paris Hilton", "Parisian", "Paris Agreement"} /\ part = "Paris"
    \/ name = "Paris Hilton" /\ part = "Hilton"

Range(s) == {s[i] : i \in 1..Len(s)}

\* ORDER BY key DESC LIMIT limit over the rows S: the lists the database may
\* return.  key is a function on S.
TopLists(S, key, limit) ==
    LET n == IF limit < Cardinality(S) THEN limit ELSE Cardinality(S)
    IN  { s \in [1..n -> S] :
            /\ \A i, j \in 1..n : i # j => s[i] # s[j]
            /\ \A i \in 1..(n - 1) : key[s[i]] >= key[s[i + 1]]
            /\ \A x \in S \ Range(s) : \A i \in 1..n : key[x] <= key[s[i]] }

\* find_entities_by_name(name, language, limit): the lists of entity ids it
\* may return
FindEntitiesByName(name, language, limit) ==
    LET Matching == { id \in DOMAIN graph_entities :
                        /\ Contains(graph_entities[id].name, name)
                        /\ Truthy(language) => graph_entities[id].language = language }
    IN  TopLists(Matching, [id \in Matching |-> graph_entities[id].confidence], limit)

\* the loop over query_entities: one list of matches per extracted entity
RECURSIVE MatchChoices(_, _)
MatchChoices(names, language) ==
    IF names = <<>> THEN { <<>> }
    ELSE { <<m>> \o rest : m \in FindEntitiesByName(Head(names), language, 3),
                           rest \in MatchChoices(Tail(names), language) }

\* entity_ids.extend(...) for each list of matches
RECURSIVE Flatten(_)
Flatten(lists) == IF lists = <<>> THEN <<>> ELSE Head(lists) \o Flatten(Tail(lists))

\* sum(m.confidence * e.confidence) over a set of edges
RECURSIVE SumMentions(_)
SumMentions(rows) ==
    IF rows = {} THEN 0
    ELSE LET m == CHOOSE x \in rows : TRUE
         IN  m.confidence * graph_entities[m.entity].confidence + SumMentions(rows \ {m})

\* the rows of MATCH (c:Chunk)-[m:MENTIONS]->(e:Entity) WHERE e.id IN $entity_ids
MentionRows(entity_ids) == { m \in graph_mentions : m.entity \in Range(entity_ids) }

\* find_chunks_by_entities(entity_ids, top_k): the lists of [id, score] it may
\* return
FindChunksByEntities(entity_ids, top_k) ==
    LET rows == MentionRows(entity_ids)
        found == { m.chunk : m \in rows }
        score == [c \in found |-> SumMentions({ m \in rows : m.chunk = c })]
    IN  { [i \in 1..Len(s) |-> [id |-> s[i], score |-> score[s[i]]]] :
            s \in TopLists(found, score, top_k) }

GraphResult(chunk, rank, language, query_entities) ==
    [doc_id |-> ChunkNode(chunk.id).doc_id, chunk_id |-> chunk.id, score |-> chunk.score,
     rank |-> rank, language |-> ChunkNode(chunk.id).language, entities |-> query_entities]

\* Faulty variant of BuildGraphResults: ranks counted from 0
BuildGraphResultsZeroBased(chunks, language, query_entities) ==
    [i \in 1..Len(chunks) |-> GraphResult(chunks[i], i - 1, language, query_entities)]

\* for rank, chunk in enumerate(chunks, start=1)
BuildGraphResults(chunks, language, query_entities) ==
    [i \in 1..Len(chunks) |-> GraphResult(chunks[i], i, language, query_entities)]

\* Faulty variant of QueriesChunks: no early return
QueriesChunksUnguarded(query_entities, entity_ids) == TRUE

\* search goes on to find_chunks_by_entities: neither early return is taken
QueriesChunks(query_entities, entity_ids) ==
    query_entities # <<>> /\ entity_ids # <<>>

NoLink == [fn |-> "none"]
NoGraphSearch == [fn |-> "none"]

GraphInit ==
    /\ graph_documents = {}
    /\ graph_chunks = {}
    /\ graph_entities = <<>>
    /\ graph_mentions = {}
    /\ graph_link = NoLink
    /\ graph_call = NoGraphSearch
    /\ graph_results = <<>>

\* add_document: MERGE (d:Document {id})
AddDocument(doc_id) ==
    /\ graph_call = NoGraphSearch
    /\ graph_documents' = graph_documents \cup {doc_id}
    /\ UNCHANGED <<graph_chunks, graph_entities, graph_mentions, graph_link,
                   graph_call, graph_results>>
    /\ UNCHANGED nonGraphVars

\* add_chunk: MATCH the document, MERGE (c:Chunk {id})
AddChunk(chunk_id, doc_id) ==
    /\ graph_call = NoGraphSearch
    /\ graph_chunks' = IF doc_id \in graph_documents
                       THEN graph_chunks \cup {chunk_id} ELSE graph_chunks
    /\ UNCHANGED <<graph_documents, graph_entities, graph_mentions, graph_link,
                   graph_call, graph_results>>
    /\ UNCHANGED nonGraphVars

\* MERGE (e:Entity {id}) SET name, language, confidence on the Entity nodes
PutEntity(entities, entity) ==
    [id \in DOMAIN entities \cup {entity.id} |->
        IF id = entity.id
        THEN [name |-> entity.name, language |-> entity.language,
              confidence |-> entity.confidence]
        ELSE entities[id]]

\* add_entity
AddEntity(entity) ==
    /\ graph_call = NoGraphSearch
    /\ graph_entities' = PutEntity(graph_entities, entity)
    /\ UNCHANGED <<graph_documents, graph_chunks, graph_mentions, graph_link,
                   graph_call, graph_results>>
    /\ UNCHANGED nonGraphVars

MentionsOf(chunk_id, entity_id) ==
    { m \in graph_mentions : m.chunk = chunk_id /\ m.entity = entity_id }

\* Faulty variant of MergeMention: CREATE in place of MERGE
CreateMention(chunk_id, entity_id, confidence) ==
    graph_mentions \cup
       { [chunk |-> chunk_id, entity |-> entity_id, confidence |-> confidence,
          n |-> Cardinality(MentionsOf(chunk_id, entity_id)) + 1] }

\* MERGE (c)-[m:MENTIONS]->(e) SET m.confidence = $confidence on the edges
PutMention(mentions, chunk_id, entity_id, confidence) ==
    IF \A m \in mentions : m.chunk # chunk_id \/ m.entity # entity_id
    THEN mentions \cup
            { [chunk |-> chunk_id, entity |-> entity_id, confidence |-> confidence, n |-> 1] }
    ELSE { IF m.chunk = chunk_id /\ m.entity = entity_id
           THEN [m EXCEPT !.confidence = confidence] ELSE m : m \in mentions }

MergeMention(chunk_id, entity_id, confidence) ==
    PutMention(graph_mentions, chunk_id, entity_id, confidence)

\* link_chunk_to_entity: the two MATCH clauses give no row when a node is missing
LinkChunkToEntity(chunk_id, entity_id, confidence) ==
    LET matched == chunk_id \in graph_chunks /\ entity_id \in DOMAIN graph_entities
    IN  /\ graph_call = NoGraphSearch
        /\ graph_mentions' = IF matched THEN MergeMention(chunk_id, entity_id, confidence)
                             ELSE graph_mentions
        /\ graph_link' = [fn |-> "link_chunk_to_entity", chunk_id |-> chunk_id,
                          entity_id |-> entity_id, confidence |-> confidence,
                          matched |-> matched]
        /\ UNCHANGED <<graph_documents, graph_chunks, graph_entities, graph_call,
                       graph_results>>
        /\ UNCHANGED nonGraphVars

\* GraphRetriever.search(query, top_k, language); query_entities are the names
\* extract_entities returned for the query
GraphSearch(query_entities, top_k, language) ==
    /\ graph_call = NoGraphSearch
    /\ \E matches \in MatchChoices(query_entities, language) :
          LET entity_ids == Flatten(matches)
              queried == QueriesChunks(query_entities, entity_ids)
          IN  /\ graph_call' = [fn |-> "search", query_entities |-> query_entities,
                                top_k |-> top_k, language |-> language,
                                matches |-> matches, entity_ids |-> entity_ids,
                                chunks_queried |-> queried]
              /\ IF queried
                 THEN \E chunks \in FindChunksByEntities(entity_ids, top_k) :
                         graph_results' = BuildGraphResults(chunks, language, query_entities)
                 ELSE graph_results' = <<>>
    /\ UNCHANGED <<graph_documents, graph_chunks, graph_entities, graph_mentions, graph_link>>
    /\ UNCHANGED nonGraphVars

\* the position of a (chunk, entity) pair in a fixed order of the pairs
ChunkIndex(c) == CHOOSE i \in 1..Len(GraphChunkOrder) : GraphChunkOrder[i] = c
EntityIndex(e) == CHOOSE i \in 1..Len(EntityCatalogue) : EntityCatalogue[i].id = e
PairIndex(c, e) == (ChunkIndex(c) - 1) * Len(EntityCatalogue) + EntityIndex(e)

\* Any order of calls on a store of two chunks and two entities.
GraphStoreNext ==
    \/ \E doc_id \in GraphDocIds : AddDocument(doc_id)
    \/ \E chunk_id \in GraphChunkIds, doc_id \in GraphDocIds : AddChunk(chunk_id, doc_id)
    \/ \E i \in 1..2 : AddEntity(EntityCatalogue[i])
    \/ \E chunk_id \in GraphChunkIds, i \in 1..2, confidence \in Confidences :
          LinkChunkToEntity(chunk_id, EntityCatalogue[i].id, confidence)

\* A store filled as ingestion fills it (document, chunks, entities, mentions,
\* each in a fixed order, at most MaxLinks mentions), then searched once.
GraphNext ==
    \/ \E doc_id \in GraphDocIds : doc_id \notin graph_documents /\ AddDocument(doc_id)
    \/ \E i \in 1..Len(GraphChunkOrder), doc_id \in GraphDocIds :
          /\ i = Cardinality(graph_chunks) + 1
          /\ doc_id \in graph_documents
          /\ AddChunk(GraphChunkOrder[i], doc_id)
    \/ \E i \in 1..Len(EntityCatalogue) :
          /\ i = Cardinality(DOMAIN graph_entities) + 1
          /\ AddEntity(EntityCatalogue[i])
    \/ \E chunk_id \in GraphChunkIds, entity_id \in GraphEntityIds, confidence \in Confidences :
          /\ chunk_id \in graph_chunks
          /\ entity_id \in DOMAIN graph_entities
          /\ Cardinality(graph_mentions) < MaxLinks
          /\ \A m \in graph_mentions :
                PairIndex(m.chunk, m.entity) < PairIndex(chunk_id, entity_id)
          /\ LinkChunkToEntity(chunk_id, entity_id, confidence)
    \/ \E query_entities \in ExtractedNames, top_k \in 1..MaxGraphTopK,
          language \in GraphLanguages :
          GraphSearch(query_entities, top_k, language)

(***************************************************************************)
(* Ingestion into the graph store (ingest_document), and the entity ids.   *)
(* An id made by string formatting is the tuple of the formatted parts; an *)
(* MD5 digest is the tuple of the tag "md5" and the digested string's      *)
(* parts, so two digests are equal exactly when their inputs are.          *)
(***************************************************************************)
IngestDocIds == <<"d1", "d2", "d3", "d4">>
IngestLanguages == {"en", "es"}
ExtractedEntities ==
    { [name |-> "Apple Inc", type |-> "ORGANIZATION"],
      [name |-> "apple inc", type |-> "ORGANIZATION"],
      [name |-> "Apple Inc", type |-> "PRODUCT"],
      [name |-> "Paris", type |-> "LOCATION"] }
ExtractedLists == UNION { [1..n -> ExtractedEntities] : n \in 0..MaxExtracted }

\* name.lower()
NameLower(name) ==
    CASE name = "Apple Inc" -> "apple inc"
      [] name = "Paris" -> "paris"
      [] OTHER -> name

\* name.replace(" ", "_")
NameUnderscored(name) ==
    CASE name = "Apple Inc" -> "Apple_Inc"
      [] name = "apple inc" -> "apple_inc"
      [] OTHER -> name

\* hashlib.md5(f"{name.lower()}_{language}".encode()).hexdigest()[:16]
generate_entity_id(name, language) == <<"md5", NameLower(name), language>>

\* f"{entity.name}_{entity.type}".replace(" ", "_")
IngestEntityId(entity) == <<NameUnderscored(entity.name), entity.type>>

\* f"{doc_id}_chunk_{i}"
IngestChunkId(doc_id, i) == <<doc_id, "chunk", i>>

\* the loop over the entities of one chunk: add_entity, then link_chunk_to_entity
\* with the entity's confidence (0.8 from the extractor)
RECURSIVE IngestEntities(_, _, _, _)
IngestEntities(store, chunk_id, language, entities) ==
    IF entities = <<>> THEN store
    ELSE LET entity == Head(entities)
             entity_id == IngestEntityId(entity)
             added == PutEntity(store.entities,
                                [id |-> entity_id, name |-> entity.name,
                                 language |-> language, confidence |-> 8])
             after == [entities |-> added,
                       mentions |-> PutMention(store.mentions, chunk_id, entity_id, 8),
                       link |-> [fn |-> "link_chunk_to_entity", chunk_id |-> chunk_id,
                                 entity_id |-> entity_id, confidence |-> 8,
                                 matched |-> TRUE],
                       ingested |-> store.ingested \cup
                                       { [name |-> entity.name, type |-> entity.type,
                                          language |-> language, id |-> entity_id] }]
         IN  IngestEntities(after, chunk_id, language, Tail(entities))

IngestInit == ingested = {}

\* ingest_document, the graph part, for a document of one chunk: add_document,
\* add_chunk, and the entities the extractor returned for the chunk
IngestDocument(doc_id, language, entities) ==
    LET chunk_id == IngestChunkId(doc_id, 0)
        store == IngestEntities([entities |-> graph_entities, mentions |-> graph_mentions,
                                 link |-> graph_link, ingested |-> ingested],
                                chunk_id, language, entities)
    IN  /\ graph_call = NoGraphSearch
        /\ graph_documents' = graph_documents \cup {doc_id}
        /\ graph_chunks' = graph_chunks \cup {chunk_id}
        /\ graph_entities' = store.entities
        /\ graph_mentions' = store.mentions
        /\ graph_link' = store.link
        /\ ingested' = store.ingested
        /\ UNCHANGED <<graph_call, graph_results>>
        /\ UNCHANGED nonIngestVars

\* documents are ingested one after the other, each under a new id
IngestNext ==
    \E i \in 1..Len(IngestDocIds), language \in IngestLanguages, entities \in ExtractedLists :
        /\ i = Cardinality(graph_documents) + 1
        /\ i <= MaxIngests
        /\ IngestDocument(IngestDocIds[i], language, entities)

(***************************************************************************)
(* The query route (hybrid_search).  The three retrievers are inputs: each *)
(* is configured in app_state or not, and its search either raises or      *)
(* returns a list of results.                                              *)
(***************************************************************************)
RetrievalMethods == {"bm25", "dense", "colbert", "graph"}
SearchOutcomes ==
    { [raised |-> TRUE, ids |-> <<>>],
      [raised |-> FALSE, ids |-> <<>>],
      [raised |-> FALSE, ids |-> <<"c1">>],
      [raised |-> FALSE, ids |-> <<"c2", "c1">>] }
NoRequest == [fn |-> "none"]
\* detail of the HTTPException the handler's except clause raises: str(e) of the
\* HTTPException of the empty retrieval, or of the exception of a search
NoDocumentsIndexed == "500: No documents indexed. Please ingest data before querying."
SearchError == "search exception"

\* one retrieval step of hybrid_search that catches the exceptions of the
\* search: results_dict[method] = results, or a warning
SearchGuarded(run, method, retrievers, outcomes) ==
    IF run.failed \/ method \notin retrievers THEN run
    ELSE IF outcomes[method].raised THEN [run EXCEPT !.searched = Append(@, method)]
    ELSE [run EXCEPT !.searched = Append(@, method),
                     !.results_dict =
             Append(@, [method |-> method,
                        results |-> ResultList(method, outcomes[method].ids)])]

\* a faulty variant of SearchColbert: the results are stored under 'colbert'
SearchColbertOwnKey(run, retrievers, outcomes) ==
    IF run.failed \/ "dense" \notin retrievers THEN run
    ELSE IF outcomes["dense"].raised THEN [run EXCEPT !.searched = Append(@, "dense")]
    ELSE [run EXCEPT !.searched = Append(@, "dense"),
                     !.results_dict =
             Append(@, [method |-> "colbert",
                        results |-> ResultList("dense", outcomes["dense"].ids)])]

\* the 'colbert' step of hybrid_search when results_dict has no 'dense' key:
\* the dense retriever is searched and the list stored under 'dense'.  When
\* the 'dense' step has searched already (and raised), this is the second
\* search of the request, with an outcome of its own.
SearchColbert(run, retrievers, outcomes) ==
    LET outcome == IF \E i \in 1..Len(run.searched) : run.searched[i] = "dense"
                   THEN outcomes["dense_again"] ELSE outcomes["dense"]
    IN  IF run.failed \/ "dense" \notin retrievers THEN run
        ELSE IF outcome.raised THEN [run EXCEPT !.searched = Append(@, "dense")]
        ELSE [run EXCEPT !.searched = Append(@, "dense"),
                         !.results_dict =
                 Append(@, [method |-> "dense",
                            results |-> ResultList("dense", outcome.ids)])]

\* the BM25 step of hybrid_search: the search is not inside a try of its own,
\* an exception reaches the handler's except clause
SearchUnguarded(run, method, retrievers, outcomes) ==
    IF run.failed \/ method \notin retrievers THEN run
    ELSE IF outcomes[method].raised
    THEN [run EXCEPT !.failed = TRUE, !.searched = Append(@, method)]
    ELSE [run EXCEPT !.searched = Append(@, method),
                     !.results_dict =
             Append(@, [method |-> method,
                        results |-> ResultList(method, outcomes[method].ids)])]

\* a faulty variant: only a results_dict without any key is taken as empty
NoResultsDict(dict) == dict = <<>>

\* not available_results: no list of results_dict holds a result
NoAvailableResults(dict) == \A i \in 1..Len(dict) : dict[i].results = <<>>

DictKeys(dict) == [i \in 1..Len(dict) |-> dict[i].method]

\* hybrid_search(request): retrieval_methods are the requested methods,
\* retrievers the methods whose retriever app_state holds.  `searched` is not
\* part of the response: it lists the retrievers searched while it was made.
hybrid_search(retrieval_methods, retrievers, outcomes, rrf_k, top_k) ==
    LET start == [failed |-> FALSE, results_dict |-> <<>>, searched |-> <<>>]
        after_bm25 == IF "bm25" \in retrieval_methods
                      THEN SearchUnguarded(start, "bm25", retrievers, outcomes)
                      ELSE start
        after_dense == IF "dense" \in retrieval_methods
                       THEN SearchGuarded(after_bm25, "dense", retrievers, outcomes)
                       ELSE after_bm25
        after_colbert == IF /\ "colbert" \in retrieval_methods
                            /\ \A i \in 1..Len(after_dense.results_dict) :
                                  after_dense.results_dict[i].method # "dense"
                         THEN SearchColbert(after_dense, retrievers, outcomes)
                         ELSE after_dense
        after_graph == IF "graph" \in retrieval_methods
                       THEN SearchGuarded(after_colbert, "graph", retrievers, outcomes)
                       ELSE after_colbert
        dict == after_graph.results_dict
    IN  IF after_graph.failed
        THEN [status |-> 500, detail |-> SearchError, results |-> <<>>,
              methods_used |-> <<>>, searched |-> after_graph.searched]
        ELSE IF NoAvailableResults(dict)
        THEN [status |-> 500, detail |-> NoDocumentsIndexed, results |-> <<>>,
              methods_used |-> <<>>, searched |-> after_graph.searched]
        ELSE [status |-> 200, detail |-> None,
              results |-> reciprocal_rank_fusion(dict, rrf_k, top_k),
              methods_used |-> DictKeys(dict), searched |-> after_graph.searched]

QueryInit ==
    /\ query_request = NoRequest
    /\ query_response = NoRequest
    /\ query_errors = {}

\* POST /query
HybridSearch ==
    /\ query_request = NoRequest
    /\ \E retrieval_methods \in SUBSET RetrievalMethods, retrievers \in SUBSET Methods,
          first \in [Methods -> SearchOutcomes], dense_again \in SearchOutcomes,
          rrf_k \in RRFKValues, top_k \in 1..MaxTopK :
          /\ first["dense"].raised \/ dense_again = first["dense"]
          /\ LET outcomes == [m \in Methods \cup {"dense_again"} |->
                                 IF m = "dense_again" THEN dense_again ELSE first[m]]
             IN  /\ query_request' = [fn |-> "hybrid_search",
                                      retrieval_methods |-> retrieval_methods,
                                      retrievers |-> retrievers, outcomes |-> outcomes,
                                      rrf_k |-> rrf_k, top_k |-> top_k]
                 /\ query_response' = hybrid_search(retrieval_methods, retrievers,
                                                    outcomes, rrf_k, top_k)
    /\ UNCHANGED query_errors
    /\ UNCHANGED nonQueryVars

QueryNext == HybridSearch

\* the min_score hybrid_search passes to the BM25 search
QueryMinScore == 0 - 999
DefaultRetrievalMethods == {"bm25", "dense", "graph"}

\* POST /query when app_state holds the BM25 retriever of this model and no
\* dense or graph retriever (none is configured): the BM25 list is what
\* BM25Retriever.search returns in the current state of the index.  A query
\* has at least one character (min_length=1); retrieval_methods has its
\* default value.
HybridSearchOverIndex ==
    /\ Cardinality(query_errors) < MaxQueries
    /\ \E query \in Queries \ {<<>>}, language \in SearchLanguages :
          LET top_k == MaxTopK
              retrieval_methods == DefaultRetrievalMethods
              bm25_results_now == search(query, top_k, language, QueryMinScore, use_nltk)
              outcomes == [m \in Methods \cup {"dense_again"} |->
                             IF m = "bm25"
                             THEN [raised |-> SearchRaises(query, language, use_nltk),
                                   ids |-> [i \in 1..Len(bm25_results_now) |->
                                               bm25_results_now[i].doc_id]]
                             ELSE [raised |-> FALSE, ids |-> <<>>]]
              response == hybrid_search(retrieval_methods, {"bm25"}, outcomes, 60, top_k)
          IN  /\ query_request' = [fn |-> "hybrid_search", query |-> query,
                                   language |-> language, top_k |-> top_k,
                                   retrieval_methods |-> retrieval_methods]
              /\ query_response' = response
              /\ query_errors' =
                    IF response.status = 200 THEN query_errors
                    ELSE query_errors \cup
                            { [indexed |-> Len(documents),
                               matched |-> Len(bm25_results_now),
                               response |-> response] }
    /\ UNCHANGED <<fusionVars, bm25Vars, okapiVars, graphVars, ingestVars, storeVars>>

\* a score table of a model built from `docs`: 1 for a document that holds a
\* token of the query, 0 for the others
MatchScores(docs) ==
    [q \in TokenizedQueries |->
        [i \in 1..Len(docs) |->
            IF HoldsTokenOf(tokenize(docs[i].text, docs[i].language, use_nltk), q)
            THEN 1 ELSE 0]]

\* the BM25 retriever is indexed and cleared, requests are answered in between
QueryIndexNext ==
    \/ TokenizerFallback
    \/ \E docs \in Corpora : IndexDocuments(docs, MatchScores(docs), Len(docs) + 1)
    \/ ClearIndex
    \/ HybridSearchOverIndex

(***************************************************************************)
(* The stores behind the retrievers, and the requests that change them:    *)
(* POST /ingest (ingest_document), POST /ingest/stream, reset_ingested_    *)
(* content, POST /admin/reset-all, and GET /chunks that reads them.  A     *)
(* chunk is the record [id, language]: its text is fixed by its id (the    *)
(* document id is a digest of the content), its language is what the       *)
(* upload declared.  A Python dict is the sequence of its values in        *)
(* insertion order.  `fault` names the collaborator whose calls raise      *)
(* during one request.                                                     *)
(***************************************************************************)
UploadedFiles == {"d1", "d2"}
\* the paragraphs of the uploaded text
ChunkCount(doc_id) == IF doc_id = "d1" THEN 2 ELSE 1
StoreLanguages == {"en", "es"}
DenseModes == {"none", "memory", "qdrant"}
Faults == {"none", "neo4j", "dense", "chunk_store"}
NotStarted == [started |-> FALSE]

DocObjects(doc_id, language) ==
    [i \in 1..ChunkCount(doc_id) |->
        [id |-> IngestChunkId(doc_id, i - 1), language |-> language]]
ChunkIdsOf(docs) == {docs[i].id : i \in 1..Len(docs)}

\* a faulty variant of DictPut: the value is added whether the key exists or not
DictPutAppend(existing, doc) == Append(existing, doc)

\* existing[doc['id']] = doc
DictPut(existing, doc) ==
    IF \E i \in 1..Len(existing) : existing[i].id = doc.id
    THEN [i \in 1..Len(existing) |-> IF existing[i].id = doc.id THEN doc ELSE existing[i]]
    ELSE Append(existing, doc)

\* for doc in docs: existing[doc['id']] = doc
RECURSIVE DictUpdate(_, _)
DictUpdate(existing, docs) ==
    IF docs = <<>> THEN existing
    ELSE DictUpdate(DictPut(existing, Head(docs)), Tail(docs))

\* ChunkStore.load_all and ChunkStore.upsert (the list it writes and returns)
load_all(file) == DictUpdate(<<>>, file)
upsert(file, docs) == DictUpdate(load_all(file), docs)

\* the stores as one value; `raised` is the status of the HTTPException an
\* exception ends the request with, 0 while none was raised
World ==
    [app |-> app_state, file |-> chunk_file, bm25 |-> bm25_index,
     qdrant |-> qdrant_points, neo4j |-> neo4j_chunks, raised |-> 0]
Raise(w, status) == [w EXCEPT !.raised = status]

\* reset_ingested_content(force).  DenseRetriever.clear_index logs an error of
\* Qdrant and goes on.
reset_ingested_content(w, force, fault) ==
    IF w.app.persist /\ ~force
    THEN [w EXCEPT !.app.ingestion_reset_done = TRUE]
    ELSE LET bm25_cleared == [w EXCEPT !.bm25 = <<>>]
             dense_cleared ==
                 IF w.app.dense = "none" \/ (w.app.dense = "qdrant" /\ fault = "dense")
                 THEN bm25_cleared
                 ELSE [bm25_cleared EXCEPT !.qdrant = {}]
         IN  IF w.app.neo4j /\ fault = "neo4j" THEN Raise(dense_cleared, 500)
             ELSE IF w.app.persist /\ fault = "chunk_store"
             THEN Raise([dense_cleared EXCEPT !.neo4j = IF w.app.neo4j THEN {} ELSE @], 500)
             ELSE [dense_cleared EXCEPT !.neo4j = IF w.app.neo4j THEN {} ELSE @,
                                        !.file = <<>>,
                                        !.app.documents = <<>>,
                                        !.app.ingestion_reset_done = TRUE]

\* add_chunk for the chunks `ids` (MERGE on the chunk id)
StoreChunks(w, ids) ==
    IF w.app.neo4j THEN [w EXCEPT !.neo4j = @ \cup ids] ELSE w

\* "Merge new chunks with existing in-memory documents", "Persist to disk if
\* configured"
MergeAndPersist(w, doc_objects, fault) ==
    LET merged == [w EXCEPT !.app.documents = DictUpdate(@, doc_objects)]
    IN  IF ~w.app.persist THEN merged
        ELSE IF fault = "chunk_store" THEN Raise(merged, 500)
        ELSE [merged EXCEPT !.file = upsert(@, merged.app.documents),
                            !.app.documents = upsert(merged.file, merged.app.documents)]

\* "Add to BM25 index"
IndexBM25(w) ==
    IF w.app.documents # <<>> THEN [w EXCEPT !.bm25 = w.app.documents] ELSE w

\* "Add to dense retriever (if available)": the new chunks are upserted into
\* Qdrant, or the in-memory index is rebuilt from all the documents; an
\* exception is logged
IndexDense(w, doc_objects, fault) ==
    IF w.app.dense = "none" \/ w.app.documents = <<>> THEN w
    ELSE IF fault = "dense" THEN w
    ELSE IF w.app.dense = "qdrant"
    THEN [w EXCEPT !.qdrant = @ \cup ChunkIdsOf(doc_objects)]
    ELSE [w EXCEPT !.qdrant = ChunkIdsOf(w.app.documents)]

\* ingest_document(file, language), up to its response
ingest_document(w, doc_id, language, fault) ==
    LET doc_objects == DocObjects(doc_id, language)
        reset == IF w.app.ingestion_reset_done THEN w
                 ELSE reset_ingested_content(w, FALSE, fault)
    IN  IF reset.raised # 0 THEN reset
        ELSE IF reset.app.neo4j /\ fault = "neo4j" THEN Raise(reset, 500)
        ELSE LET persisted == MergeAndPersist(StoreChunks(reset, ChunkIdsOf(doc_objects)),
                                              doc_objects, fault)
             IN  IF persisted.raised # 0 THEN persisted
                 ELSE IndexDense(IndexBM25(persisted), doc_objects, fault)

\* reset_all_data: 503 from the dependencies when the graph client or the
\* Qdrant store is missing; then Neo4j, Qdrant, BM25, chunk store, documents
\* are cleared in this order, and an exception ends the request with 500
reset_all_data(w, fault) ==
    IF ~w.app.neo4j \/ w.app.dense # "qdrant" THEN Raise(w, 503)
    ELSE IF fault = "neo4j" THEN Raise(w, 500)
    ELSE IF fault = "dense" THEN Raise([w EXCEPT !.neo4j = {}], 500)
    ELSE IF w.app.persist /\ fault = "chunk_store"
    THEN Raise([w EXCEPT !.neo4j = {}, !.qdrant = {}, !.bm25 = <<>>], 500)
    ELSE [w EXCEPT !.neo4j = {}, !.qdrant = {}, !.bm25 = <<>>, !.file = <<>>,
                   !.app.documents = <<>>]

\* list_chunks(limit, language=None, source): the status, and how many chunks
\* each source gave
list_chunks(w, limit, source, fault) ==
    LET qdrant_active == w.app.dense = "qdrant"
        from_qdrant == IF source \in {"auto", "qdrant"} /\ qdrant_active
                       THEN Min(Cardinality(w.qdrant), limit) ELSE 0
        seen == IF from_qdrant > 0 THEN w.qdrant ELSE {}
        remaining_slots == limit - from_qdrant
        store_chunks == IF w.app.persist THEN ChunkIdsOf(load_all(w.file)) ELSE {}
        fresh == IF source = "auto" THEN store_chunks \ seen ELSE store_chunks
        from_store == IF source \in {"auto", "store"} /\ remaining_slots > 0
                      THEN Min(Cardinality(fresh), remaining_slots) ELSE 0
    IN  IF source \in {"auto", "qdrant"} /\ qdrant_active /\ fault = "dense"
        THEN [status |-> 500, returned |-> 0]
        ELSE IF source = "qdrant" /\ ~qdrant_active
        THEN [status |-> 503, returned |-> 0]
        ELSE IF source = "store" /\ ~w.app.persist
        THEN [status |-> 503, returned |-> 0]
        ELSE [status |-> 200, returned |-> from_qdrant + from_store]

StoreInit ==
    /\ app_state = NotStarted
    /\ chunk_file = <<>>
    /\ bm25_index = <<>>
    /\ qdrant_points = {}
    /\ neo4j_chunks = {}
    /\ ingest_streams = [doc_id \in UploadedFiles |-> [pc |-> "idle"]]
    /\ store_result = [fn |-> "none"]

\* the stores after a request, and what the request answered
Commit(w, result) ==
    /\ app_state' = w.app
    /\ chunk_file' = w.file
    /\ bm25_index' = w.bm25
    /\ qdrant_points' = w.qdrant
    /\ neo4j_chunks' = w.neo4j
    /\ store_result' = result
    /\ UNCHANGED nonStoreVars

StatusOf(w) == IF w.raised = 0 THEN 200 ELSE w.raised

\* startup_event: the chunk store exists when PERSIST_INGESTED_CONTENT is set,
\* and its chunks are loaded into the BM25 index
Startup(persist, dense, neo4j) ==
    /\ app_state = NotStarted
    /\ LET persisted_chunks == IF persist THEN load_all(chunk_file) ELSE <<>>
       IN  Commit([World EXCEPT !.app = [started |-> TRUE, persist |-> persist,
                                         dense |-> dense, neo4j |-> neo4j,
                                         documents |-> persisted_chunks,
                                         ingestion_reset_done |-> persist],
                                !.bm25 = persisted_chunks],
                  [fn |-> "startup"])
    /\ UNCHANGED ingest_streams

NoStream == \A doc_id \in UploadedFiles : ingest_streams[doc_id].pc \in {"idle", "done"}

\* POST /ingest
IngestDocumentRequest(doc_id, language, fault) ==
    /\ app_state.started /\ NoStream
    /\ LET w == ingest_document(World, doc_id, language, fault)
       IN  Commit(w, [fn |-> "ingest_document", status |-> StatusOf(w),
                      doc_id |-> doc_id, language |-> language])
    /\ UNCHANGED ingest_streams

\* reset_ingested_content(force) called on its own
ResetIngestedContent(force, fault) ==
    /\ app_state.started /\ NoStream
    /\ LET w == reset_ingested_content(World, force, fault)
       IN  Commit(w, [fn |-> "reset_ingested_content", status |-> StatusOf(w),
                      force |-> force])
    /\ UNCHANGED ingest_streams

\* POST /admin/reset-all: the handler has no await, it runs in one piece
ResetAllData(fault) ==
    /\ app_state.started
    /\ LET w == reset_all_data(World, fault)
       IN  Commit(w, [fn |-> "reset_all_data", status |-> StatusOf(w)])
    /\ UNCHANGED ingest_streams

\* GET /chunks
ListChunks(limit, source, fault) ==
    /\ app_state.started /\ NoStream
    /\ LET response == list_chunks(World, limit, source, fault)
       IN  store_result' = [fn |-> "list_chunks", source |-> source, limit |-> limit,
                            status |-> response.status, returned |-> response.returned]
    /\ UNCHANGED <<app_state, chunk_file, bm25_index, qdrant_points, neo4j_chunks,
                   ingest_streams>>
    /\ UNCHANGED nonStoreVars

\* POST /ingest/stream.  The generator gives the control back at every yield
\* and every await asyncio.sleep: what runs between two of them is one step.
\* Parsing, chunking and add_document write no chunk.
StreamStart(doc_id, language) ==
    /\ app_state.started
    /\ ingest_streams[doc_id].pc = "idle"
    /\ ingest_streams' = [ingest_streams EXCEPT
                             ![doc_id] = [pc |-> "chunk", language |-> language, i |-> 0]]
    /\ UNCHANGED <<app_state, chunk_file, bm25_index, qdrant_points, neo4j_chunks,
                   store_result>>
    /\ UNCHANGED nonStoreVars

\* one turn of "for i, chunk_text in enumerate(chunks)": add_chunk, the entities
StreamChunk(doc_id) ==
    LET stream == ingest_streams[doc_id]
    IN  /\ stream.pc = "chunk"
        /\ neo4j_chunks' = StoreChunks(World, {IngestChunkId(doc_id, stream.i)}).neo4j
        /\ ingest_streams' = [ingest_streams EXCEPT ![doc_id] =
                                 IF stream.i + 1 < ChunkCount(doc_id)
                                 THEN [stream EXCEPT !.i = @ + 1]
                                 ELSE [pc |-> "merge", language |-> stream.language]]
        /\ UNCHANGED <<app_state, chunk_file, bm25_index, qdrant_points, store_result>>
        /\ UNCHANGED nonStoreVars

\* after the loop: the merge and the chunk store, up to the yield of stage 5
StreamMerge(doc_id) ==
    LET stream == ingest_streams[doc_id]
        w == MergeAndPersist(World, DocObjects(doc_id, stream.language), "none")
    IN  /\ stream.pc = "merge"
        /\ app_state' = w.app
        /\ chunk_file' = w.file
        /\ ingest_streams' = [ingest_streams EXCEPT ![doc_id].pc = "indexing_bm25"]
        /\ UNCHANGED <<bm25_index, qdrant_points, neo4j_chunks, store_result>>
        /\ UNCHANGED nonStoreVars

\* stage 5: index_documents(app_state['documents']) of the BM25 retriever
StreamIndexBM25(doc_id) ==
    /\ ingest_streams[doc_id].pc = "indexing_bm25"
    /\ bm25_index' = IndexBM25(World).bm25
    /\ ingest_streams' = [ingest_streams EXCEPT ![doc_id].pc = "indexing_dense"]
    /\ UNCHANGED <<app_state, chunk_file, qdrant_points, neo4j_chunks, store_result>>
    /\ UNCHANGED nonStoreVars

\* stage 6 and the final result
StreamIndexDense(doc_id) ==
    LET stream == ingest_streams[doc_id]
    IN  /\ stream.pc = "indexing_dense"
        /\ qdrant_points' = IndexDense(World, DocObjects(doc_id, stream.language),
                                       "none").qdrant
        /\ ingest_streams' = [ingest_streams EXCEPT ![doc_id] = [pc |-> "done"]]
        /\ store_result' = [fn |-> "ingest_document_stream", status |-> 200,
                            doc_id |-> doc_id]
        /\ UNCHANGED <<app_state, chunk_file, bm25_index, neo4j_chunks>>
        /\ UNCHANGED nonStoreVars

\* POST /query while the stores are as they are: what the BM25 retriever and
\* the graph retriever can return chunks from
SearchStores ==
    /\ app_state.started
    /\ store_result' = [fn |-> "hybrid_search", bm25 |-> ChunkIdsOf(bm25_index),
                        graph |-> neo4j_chunks]
    /\ UNCHANGED <<app_state, chunk_file, bm25_index, qdrant_points, neo4j_chunks,
                   ingest_streams>>
    /\ UNCHANGED nonStoreVars

\* requests on the stores, one at a time
StoresNext ==
    \/ \E persist \in BOOLEAN, dense \in DenseModes, neo4j \in BOOLEAN :
          Startup(persist, dense, neo4j)
    \/ \E doc_id \in UploadedFiles, language \in StoreLanguages, fault \in Faults :
          IngestDocumentRequest(doc_id, language, fault)
    \/ \E force \in BOOLEAN, fault \in Faults : ResetIngestedContent(force, fault)
    \/ \E fault \in Faults : ResetAllData(fault)

\* chunks are ingested and listed
ChunksNext ==
    \/ \E persist \in BOOLEAN, dense \in DenseModes, neo4j \in BOOLEAN :
          Startup(persist, dense, neo4j)
    \/ \E doc_id \in UploadedFiles, language \in StoreLanguages :
          IngestDocumentRequest(doc_id, language, "none")
    \/ \E limit \in 1..MaxLimit, source \in {"auto", "qdrant", "store"},
          fault \in {"none", "dense"} :
          ListChunks(limit, source, fault)

\* streaming ingests, resets and searches in any interleaving; every store is
\* configured and no collaborator fails
StreamsNext ==
    \/ Startup(TRUE, "qdrant", TRUE)
    \/ \E doc_id \in UploadedFiles :
          \/ \E language \in StoreLanguages : StreamStart(doc_id, language)
          \/ StreamChunk(doc_id)
          \/ StreamMerge(doc_id)
          \/ StreamIndexBM25(doc_id)
          \/ StreamIndexDense(doc_id)
    \/ ResetAllData("none")
    \/ SearchStores

(***************************************************************************)
(* Specifications.  Spec: the fusion functions on every results_dict       *)
(* within the bounds.  SpecBM25: one BM25Retriever under any sequence of   *)
(* index, clear and search calls; SpecBM25Repeat: the same with searches   *)
(* repeated.  SpecOkapi: the score of a document before and after one of   *)
(* its tokens is replaced by the query term.  SpecGraphStore: the graph    *)
(* store under any sequence of writes.  SpecGraph: a filled graph store    *)
(* searched by the GraphRetriever.  SpecIngest: documents ingested into    *)
(* the graph store.  SpecQuery: one request to the query route.            *)
(* SpecQueryIndex: requests to the query route over a BM25 retriever that  *)
(* is indexed and cleared.  SpecStores: ingests and resets, one request at *)
(* a time, where a collaborator may fail.  SpecChunks: chunks ingested and *)
(* listed.                                                                 *)
(* SpecStreams: streaming ingests interleaved with resets and searches.    *)
(***************************************************************************)
Init ==
    /\ FusionInit /\ BM25Init /\ OkapiInit /\ GraphInit /\ IngestInit /\ QueryInit
    /\ StoreInit
Next == FusionNext
Spec == Init /\ [][Next]_vars

SpecBM25 == Init /\ [][BM25Next]_vars
SpecBM25Repeat == Init /\ [][BM25RepeatNext]_vars
SpecOkapi == Init /\ [][OkapiNext]_vars
SpecGraphStore == Init /\ [][GraphStoreNext]_vars
SpecGraph == Init /\ [][GraphNext]_vars
SpecIngest == Init /\ [][IngestNext]_vars
SpecQuery == Init /\ [][QueryNext]_vars
SpecQueryIndex == Init /\ [][QueryIndexNext]_vars
SpecStores == Init /\ [][StoresNext]_vars
SpecChunks == Init /\ [][ChunksNext]_vars
SpecStreams == Init /\ [][StreamsNext]_vars

(***************************************************************************)
(* Vocabulary of the fusion properties.  These definitions read the input  *)
(* map directly; they do not use the accumulators of the functions above.  *)
(***************************************************************************)
MethodsOf(dict) == {dict[i].method : i \in 1..Len(dict)}
ListOf(dict, method) == (CHOOSE i \in 1..Len(dict) : dict[i].method = method)
Positions(results, id) == {p \in 1..Len(results) : ResultId(results[p]) = id}
FirstPosition(results, id) ==
    CHOOSE p \in Positions(results, id) : \A q \in Positions(results, id) : p <= q
NoRepeats(dict) ==
    \A i \in 1..Len(dict) : \A p, q \in 1..Len(dict[i].results) :
        p # q => ResultId(dict[i].results[p]) # ResultId(dict[i].results[q])
DistinctIds(dict) ==
    {id \in ChunkIds : \E i \in 1..Len(dict) : Positions(dict[i].results, id) # {}}
\* Place of the first occurrence of id, methods in map order, results in list order.
Occurrences(dict, id) ==
    {<<i, p>> \in (1..Len(dict)) \X (1..MaxLen + 1) :
        p <= Len(dict[i].results) /\ ResultId(dict[i].results[p]) = id}
FirstSeen(dict, id) ==
    CHOOSE o \in Occurrences(dict, id) :
        \A x \in Occurrences(dict, id) : o[1] < x[1] \/ (o[1] = x[1] /\ o[2] <= x[2])
SeenBefore(dict, a, b) ==
    LET x == FirstSeen(dict, a)
        y == FirstSeen(dict, b)
    IN  x[1] < y[1] \/ (x[1] = y[1] /\ x[2] < y[2])
FusedId(r) == r.chunk_id
FusedIds == {FusedId(fused[j]) : j \in 1..Len(fused)}
RRFCalled == fusion_call.fn = "rrf"
WeightedCalled == fusion_call.fn = "weighted"
FusionCalled == RRFCalled \/ WeightedCalled

\* sum over the methods whose list contains id of 1/(k + p), as a numerator over RRFScale(k)
RRFSum(dict, id, k) ==
    LET RECURSIVE Sum(_)
        Sum(i) ==
            IF i = 0 THEN 0
            ELSE Sum(i - 1) +
                 (IF Positions(dict[i].results, id) = {} THEN 0
                  ELSE RRFScale(k) \div (k + FirstPosition(dict[i].results, id)))
    IN  Sum(Len(dict))

(***************************************************************************)
(* C1: for a map in which no chunk id repeats within one list, the         *)
(* rrf_score of every fused result is the sum, over the methods whose list *)
(* contains the id, of 1/(k + p), p the 1-based position of the id in that *)
(* list; a single method with a single result yields exactly 1/(k + 1).    *)
(* RRFScale(k) is a multiple of every k + p, so the sum is exact.          *)
(***************************************************************************)
C1_RRFScoreIsSumOfReciprocalRanks ==
    (RRFCalled /\ NoRepeats(results_dict)) =>
        /\ \A p \in 1..MaxLen : RRFScale(fusion_call.k) % (fusion_call.k + p) = 0
        /\ \A j \in 1..Len(fused) :
              fused[j].rrf_score = RRFSum(results_dict, FusedId(fused[j]), fusion_call.k)
        /\ (TotalResults(results_dict) = 1 /\ Len(fused) = 1) =>
              fused[1].rrf_score * (fusion_call.k + 1) = RRFScale(fusion_call.k)

C1_Witness ==
    /\ RRFCalled /\ NoRepeats(results_dict) /\ fusion_call.k = 60
    /\ Len(results_dict) = 2
    /\ \E j \in 1..Len(fused) :
          /\ Positions(results_dict[1].results, FusedId(fused[j])) = {2}
          /\ Positions(results_dict[2].results, FusedId(fused[j])) = {1}
          /\ fused[j].rrf_score * 61 * 62 = RRFScale(60) * (61 + 62)

(***************************************************************************)
(* C2: reciprocal_rank_fusion returns its results in non-increasing        *)
(* rrf_score order, and results of equal rrf_score in first-seen order     *)
(* (methods in map order, results in list order).                          *)
(***************************************************************************)
C2_RRFOrderedByScoreTiesFirstSeen ==
    RRFCalled =>
        \A i, j \in 1..Len(fused) :
            i < j =>
                /\ fused[i].rrf_score >= fused[j].rrf_score
                /\ fused[i].rrf_score = fused[j].rrf_score =>
                      SeenBefore(results_dict, FusedId(fused[i]), FusedId(fused[j]))

\* method A = [X, Y], method B = [Y, X]: identical scores, X before Y
C2_Witness ==
    /\ RRFCalled /\ Len(results_dict) = 2 /\ Len(fused) = 2
    /\ Len(results_dict[1].results) = 2 /\ Len(results_dict[2].results) = 2
    /\ ResultId(results_dict[1].results[1]) = "c2" /\ ResultId(results_dict[1].results[2]) = "c1"
    /\ ResultId(results_dict[2].results[1]) = "c1" /\ ResultId(results_dict[2].results[2]) = "c2"
    /\ fused[1].rrf_score = fused[2].rrf_score
    /\ FusedId(fused[1]) = "c2" /\ FusedId(fused[2]) = "c1"

(***************************************************************************)
(* C3: reciprocal_rank_fusion returns exactly min(top_k, number of         *)
(* distinct chunk ids over all input lists) results, each chunk id at most *)
(* once, with rank fields 1..N in output order; so an empty map or a map   *)
(* of empty lists gives [], and an empty graph list next to a non-empty    *)
(* list gives a non-empty result when top_k >= 1.                          *)
(***************************************************************************)
C3_RRFResultCountAndRanks ==
    RRFCalled =>
        /\ Len(fused) = Min(fusion_call.top_k, Cardinality(DistinctIds(results_dict)))
        /\ \A i, j \in 1..Len(fused) : i # j => FusedId(fused[i]) # FusedId(fused[j])
        /\ \A j \in 1..Len(fused) :
              fused[j].rank = j /\ FusedId(fused[j]) \in DistinctIds(results_dict)
        /\ TotalResults(results_dict) = 0 => fused = <<>>

\* graph abstained, another method did not, and the result is cut to top_k
C3_Witness ==
    /\ RRFCalled /\ "graph" \in MethodsOf(results_dict)
    /\ results_dict[ListOf(results_dict, "graph")].results = <<>>
    /\ Cardinality(DistinctIds(results_dict)) = 3 /\ fusion_call.top_k = 2
    /\ Len(fused) = 2 /\ fused[2].rank = 2

(***************************************************************************)
(* C4: when a chunk id occurs more than once in one method's list, the     *)
(* fused result's method_ranks[method] and method_scores[method] are the   *)
(* rank and score of the FIRST occurrence of the id in that list.          *)
(***************************************************************************)
C4_FirstOccurrenceRankAndScoreRetained ==
    RRFCalled =>
        \A j \in 1..Len(fused) : \A i \in 1..Len(results_dict) :
            LET results == results_dict[i].results
                method  == results_dict[i].method
                id      == FusedId(fused[j])
            IN  Positions(results, id) # {} =>
                    /\ method \in DOMAIN fused[j].method_ranks
                    /\ method \in DOMAIN fused[j].method_scores
                    /\ fused[j].method_ranks[method] = FirstPosition(results, id)
                    /\ fused[j].method_scores[method] = results[FirstPosition(results, id)].score

(***************************************************************************)
(* C5 as claimed: method_ranks[method] and method_scores[method] are the   *)
(* rank and score the method itself reported in its result object (stated  *)
(* for lists without repeated ids, where the result object is unique).     *)
(***************************************************************************)
C5_MethodRankIsReportedRank ==
    (RRFCalled /\ NoRepeats(results_dict)) =>
        \A j \in 1..Len(fused) : \A i \in 1..Len(results_dict) :
            LET results == results_dict[i].results
                method  == results_dict[i].method
            IN  \A p \in Positions(results, FusedId(fused[j])) :
                    /\ method \in DOMAIN fused[j].method_ranks
                    /\ fused[j].method_ranks[method] = results[p].rank
                    /\ fused[j].method_scores[method] = results[p].score

(***************************************************************************)
(* C5 as amended: for every fused result and every method that returned    *)
(* its chunk id, method_ranks[method] is a 1-based position at which the   *)
(* id stands in the list the method returned (the rank RRF used, not the   *)
(* rank field of the result object) and method_scores[method] is the score *)
(* reported by the result at that position; a method that did not return   *)
(* the chunk has no entry.                                                 *)
(***************************************************************************)
C5_MethodRankIsListPosition ==
    RRFCalled =>
        \A j \in 1..Len(fused) : \A method \in Methods :
            LET returned == /\ method \in MethodsOf(results_dict)
                            /\ Positions(results_dict[ListOf(results_dict, method)].results,
                                         FusedId(fused[j])) # {}
            IN  IF returned
                THEN LET results == results_dict[ListOf(results_dict, method)].results
                     IN  /\ method \in DOMAIN fused[j].method_ranks
                         /\ method \in DOMAIN fused[j].method_scores
                         /\ \E p \in Positions(results, FusedId(fused[j])) :
                               /\ fused[j].method_ranks[method] = p
                               /\ fused[j].method_scores[method] = results[p].score
                ELSE /\ method \notin DOMAIN fused[j].method_ranks
                     /\ method \notin DOMAIN fused[j].method_scores

\* a BM25 hit that BM25 reports with rank 3 stands second in its list: method_ranks is 2
C5_Witness ==
    /\ RRFCalled /\ NoRepeats(results_dict)
    /\ Len(results_dict) = 2 /\ results_dict[1].method = "bm25"
    /\ Len(results_dict[1].results) >= 2 /\ results_dict[1].results[2].rank = 3
    /\ \E j \in 1..Len(fused) :
          /\ FusedId(fused[j]) = ResultId(results_dict[1].results[2])
          /\ fused[j].method_ranks = [m \in {"bm25"} |-> 2]
          /\ DOMAIN fused[j].method_scores = {"bm25"}

(***************************************************************************)
(* C6: when several methods or several entries return the same chunk id    *)
(* with different text or language, the fused result carries the text and  *)
(* language of the first occurrence (methods in map order, results in list *)
(* order), in reciprocal_rank_fusion and in weighted_fusion.               *)
(***************************************************************************)
C6_FirstSeenTextAndLanguage ==
    FusionCalled =>
        \A j \in 1..Len(fused) :
            LET o     == FirstSeen(results_dict, FusedId(fused[j]))
                first == results_dict[o[1]].results[o[2]]
            IN  fused[j].text = first.text /\ fused[j].language = first.language

C6_Witness ==
    /\ WeightedCalled
    /\ \E j \in 1..Len(fused) :
          LET occ == Occurrences(results_dict, FusedId(fused[j]))
              o   == FirstSeen(results_dict, FusedId(fused[j]))
          IN  /\ Cardinality(occ) = 3
              /\ \E x \in occ : x[1] # o[1] /\
                    results_dict[x[1]].results[x[2]].language
                        # results_dict[o[1]].results[o[2]].language
              /\ \A x \in occ : x # o =>
                    results_dict[x[1]].results[x[2]].text
                        # results_dict[o[1]].results[o[2]].text
              /\ fused[j].text = results_dict[o[1]].results[o[2]].text

(***************************************************************************)
(* C7: weighted_fusion gives each chunk id the sum, over the results that  *)
(* carry it, of weight(method) * raw score (weight 1 for a method the      *)
(* weights map does not name), then orders by non-increasing score with    *)
(* ties in first-seen order, cuts to top_k and numbers rank 1..N; it       *)
(* records the per-method scores in the FusedResult (method_ranks stays    *)
(* empty).                                                                 *)
(***************************************************************************)
WeightedSum(dict, id, weights) ==
    LET RECURSIVE Sum(_, _)
        Sum(i, p) ==
            IF i = 0 THEN 0
            ELSE IF p = 0 THEN (IF i = 1 THEN 0 ELSE Sum(i - 1, Len(dict[i - 1].results)))
            ELSE Sum(i, p - 1) +
                 (IF ResultId(dict[i].results[p]) = id
                  THEN (IF dict[i].method \in DOMAIN weights
                        THEN weights[dict[i].method] ELSE 1) * dict[i].results[p].score
                  ELSE 0)
    IN  IF dict = <<>> THEN 0 ELSE Sum(Len(dict), Len(dict[Len(dict)].results))

C7_WeightedFusion ==
    WeightedCalled =>
        /\ Len(fused) = Min(fusion_call.top_k, Cardinality(DistinctIds(results_dict)))
        /\ \A j \in 1..Len(fused) :
              /\ fused[j].rank = j
              /\ fused[j].rrf_score
                    = WeightedSum(results_dict, FusedId(fused[j]), fusion_call.weights)
              /\ DOMAIN fused[j].method_scores =
                    {m \in MethodsOf(results_dict) :
                        Positions(results_dict[ListOf(results_dict, m)].results,
                                  FusedId(fused[j])) # {}}
              /\ \A m \in DOMAIN fused[j].method_scores :
                    \E p \in Positions(results_dict[ListOf(results_dict, m)].results,
                                       FusedId(fused[j])) :
                        fused[j].method_scores[m]
                            = results_dict[ListOf(results_dict, m)].results[p].score
              /\ fused[j].method_ranks = EmptyDict
        /\ \A i, j \in 1..Len(fused) :
              i < j =>
                  /\ fused[i].rrf_score >= fused[j].rrf_score
                  /\ fused[i].rrf_score = fused[j].rrf_score =>
                        SeenBefore(results_dict, FusedId(fused[i]), FusedId(fused[j]))

\* two weighted methods share a chunk, a tie is broken and the list is cut
C7_Witness ==
    /\ WeightedCalled /\ Len(results_dict) >= 2
    /\ DOMAIN fusion_call.weights = {"bm25", "dense"}
    /\ Cardinality(DistinctIds(results_dict)) = 3 /\ Len(fused) = 2
    /\ fused[1].rrf_score = fused[2].rrf_score
    /\ \E j \in 1..Len(fused) : Cardinality(DOMAIN fused[j].method_scores) = 2

(***************************************************************************)
(* C8 as claimed (RRF dominance): if chunk A stands in every list in which *)
(* chunk B stands, before B in each of them, and B stands in at least one  *)
(* list, then A's rrf_score is strictly greater than B's and A is ranked   *)
(* before B in the fused output.                                           *)
(***************************************************************************)
Dominates(dict, a, b) ==
    /\ a # b
    /\ \E i \in 1..Len(dict) : Positions(dict[i].results, b) # {}
    /\ \A i \in 1..Len(dict) :
          Positions(dict[i].results, b) # {} =>
              /\ Positions(dict[i].results, a) # {}
              /\ \A pa \in Positions(dict[i].results, a), pb \in Positions(dict[i].results, b) :
                    pa < pb

RankedBefore(a, b) ==
    \A jb \in 1..Len(fused) :
        FusedId(fused[jb]) = b =>
            \E ja \in 1..Len(fused) :
                /\ FusedId(fused[ja]) = a
                /\ ja < jb
                /\ fused[ja].rrf_score > fused[jb].rrf_score

C8_RRFDominance ==
    RRFCalled =>
        \A a, b \in ChunkIds : Dominates(results_dict, a, b) => RankedBefore(a, b)

(***************************************************************************)
(* C8 as amended: the same, for maps in which no chunk id occurs more than *)
(* once within one method's list.                                          *)
(***************************************************************************)
C8_RRFDominanceNoRepeats ==
    (RRFCalled /\ NoRepeats(results_dict)) =>
        \A a, b \in ChunkIds : Dominates(results_dict, a, b) => RankedBefore(a, b)

\* BM25 = [c1, c2, c3] and dense = [c2]: c3, present only in BM25, is outranked by both
C8_Witness ==
    /\ RRFCalled /\ NoRepeats(results_dict) /\ Len(results_dict) = 2
    /\ Len(results_dict[1].results) = 3 /\ Len(results_dict[2].results) = 1
    /\ ResultId(results_dict[2].results[1]) = ResultId(results_dict[1].results[2])
    /\ Len(fused) = 3
    /\ FusedId(fused[3]) = ResultId(results_dict[1].results[3])
    /\ FusedId(fused[1]) = ResultId(results_dict[1].results[2])
    /\ Dominates(results_dict, FusedId(fused[1]), FusedId(fused[3]))
    /\ Dominates(results_dict, FusedId(fused[2]), FusedId(fused[3]))

(***************************************************************************)
(* Vocabulary of the BM25 search properties.  The unfiltered ranking is    *)
(* stated by counting, not by the sort of the model.                       *)
(***************************************************************************)
Searched ==
    /\ bm25_call # NoSearch
    /\ bm25 # NoBM25 /\ documents # <<>>
    /\ tokenize(bm25_call.query, bm25_call.language, bm25_call.nltk) # <<>>
SearchScores ==
    bm25.get_scores[tokenize(bm25_call.query, bm25_call.language, bm25_call.nltk)]
\* 1-based position of document i in the score-descending list of all documents
\* (documents of equal score in corpus order)
UnfilteredRank(i) ==
    1 + Cardinality({j \in 1..Len(documents) :
                        \/ SearchScores[j] > SearchScores[i]
                        \/ (SearchScores[j] = SearchScores[i] /\ j < i)})
DocAtRank(r) == CHOOSE i \in 1..Len(documents) : UnfilteredRank(i) = r
InTopK(i) == UnfilteredRank(i) <= bm25_call.top_k
DocOf(result) == CHOOSE i \in 1..Len(documents) : documents[i].id = result.doc_id

\* the filters of the build loop; `language_always` compares the language even
\* when no query language is given
PassesFilters(i, language_always) ==
    /\ (language_always \/ Truthy(bm25_call.language)) =>
          documents[i].language = bm25_call.language
    /\ SearchScores[i] > bm25_call.min_score

\* the entries of the unfiltered top_k list that pass the filters, in order
RECURSIVE ExpectedUpTo(_, _)
ExpectedUpTo(r, language_always) ==
    IF r = 0 THEN <<>>
    ELSE IF PassesFilters(DocAtRank(r), language_always)
         THEN Append(ExpectedUpTo(r - 1, language_always),
                     <<documents[DocAtRank(r)].id, SearchScores[DocAtRank(r)],
                       documents[DocAtRank(r)].language>>)
         ELSE ExpectedUpTo(r - 1, language_always)
ExpectedSearchResults(language_always) ==
    ExpectedUpTo(Min(bm25_call.top_k, Len(documents)), language_always)
ReturnedEntries ==
    [j \in 1..Len(bm25_results) |->
        <<bm25_results[j].doc_id, bm25_results[j].score, bm25_results[j].language>>]

(***************************************************************************)
(* C9: the rank of every result BM25Retriever.search returns is its        *)
(* 1-based position in the unfiltered, score-descending top_k list; ranks  *)
(* are not renumbered after the language and min_score filters, so they    *)
(* are strictly increasing, lie in 1..top_k, and may skip values.          *)
(***************************************************************************)
C9_BM25RankIsUnfilteredPosition ==
    /\ Searched =>
          /\ \A j \in 1..Len(bm25_results) :
                /\ \E i \in 1..Len(documents) : documents[i].id = bm25_results[j].doc_id
                /\ bm25_results[j].rank = UnfilteredRank(DocOf(bm25_results[j]))
                /\ bm25_results[j].score = SearchScores[DocOf(bm25_results[j])]
                /\ bm25_results[j].rank \in 1..bm25_call.top_k
          /\ \A i, j \in 1..Len(bm25_results) :
                i < j => bm25_results[i].rank < bm25_results[j].rank
    /\ (bm25_call # NoSearch /\ ~Searched) => bm25_results = <<>>

\* ranks 1 and 3 are returned: the hit ranked 2 was filtered out
C9_Witness ==
    /\ Searched /\ Len(bm25_results) = 2
    /\ bm25_results[1].rank = 1 /\ bm25_results[2].rank = 3

(***************************************************************************)
(* C10 as claimed: search returns exactly the entries of the unfiltered    *)
(* score-descending top_k list whose declared language equals the          *)
(* requested query language and whose score is strictly greater than       *)
(* min_score, in the same order.                                           *)
(***************************************************************************)
C10_BM25ReturnsSameLanguageOnly ==
    Searched => ReturnedEntries = ExpectedSearchResults(TRUE)

(***************************************************************************)
(* C10 as amended: search returns exactly the entries of the unfiltered    *)
(* score-descending top_k list whose score is strictly greater than        *)
(* min_score and, when a query language is given (not None or empty),      *)
(* whose declared language equals it, in the same order; with no query     *)
(* language no entry is filtered by language.  So there are at most top_k  *)
(* results, scores are non-increasing, and a document outside the          *)
(* unfiltered top_k is never returned.                                     *)
(***************************************************************************)
C10_BM25ReturnsFilteredTopK ==
    Searched =>
        /\ ReturnedEntries = ExpectedSearchResults(FALSE)
        /\ Len(bm25_results) <= bm25_call.top_k
        /\ \A i, j \in 1..Len(bm25_results) :
              i < j => bm25_results[i].score >= bm25_results[j].score
        /\ \A j \in 1..Len(bm25_results) :
              /\ InTopK(DocOf(bm25_results[j]))
              /\ bm25_results[j].score > bm25_call.min_score
              /\ Truthy(bm25_call.language) =>
                    bm25_results[j].language = bm25_call.language

\* a Spanish query: a better-scored English document is filtered out, a document whose
\* score equals min_score is filtered out, and a Spanish document outside the top_k
\* list is not returned
C10_Witness ==
    /\ Searched /\ bm25_call.language = "es" /\ bm25_call.min_score = 0
    /\ Len(documents) = 3 /\ bm25_call.top_k = 2
    /\ Len(bm25_results) = 1 /\ bm25_results[1].rank = 2
    /\ documents[DocAtRank(1)].language = "en"
    /\ documents[DocAtRank(3)].language = "es"
    /\ SearchScores[DocAtRank(3)] = 0

(***************************************************************************)
(* C11: BM25Retriever.search returns an empty list, without raising,       *)
(* whenever no corpus is indexed (never indexed, last indexed with an      *)
(* empty list, or cleared by clear_index) or the query tokenizes to no     *)
(* tokens, for every top_k, language and min_score.                        *)
(***************************************************************************)
NoCorpusIndexed ==
    \/ bm25_last = NoSearch
    \/ bm25_last.fn = "clear_index"
    \/ (bm25_last.fn = "index_documents" /\ bm25_last.documents = <<>>)
SearchReturned == bm25_call # NoSearch
SearchTokens == tokenize(bm25_call.query, bm25_call.language, bm25_call.nltk)

IdsOf(docs) == [i \in 1..Len(docs) |-> docs[i].id]

C12_ReindexReplacesPriorState ==
    (bm25_last # NoSearch /\ bm25_last.fn = "index_documents") =>
        LET D == bm25_last.documents
        IN  /\ documents = D
            /\ doc_ids = IdsOf(D)
            /\ Len(tokenized_corpus) = Len(D)
            /\ (D = <<>>) = (bm25 = NoBM25)
            /\ bm25 # NoBM25 => bm25.corpus_size = Len(D)
            /\ \A j \in 1..Len(bm25_results) :
                  \E i \in 1..Len(D) :
                      /\ D[i].id = bm25_results[j].doc_id
                      /\ D[i].text = bm25_results[j].text
                      /\ D[i].language = bm25_results[j].language

\* a one-document corpus is the last one indexed, and a search returns its document
C12_Witness ==
    /\ bm25_last # NoSearch /\ bm25_last.fn = "index_documents"
    /\ Len(bm25_last.documents) = 1
    /\ SearchReturned /\ Len(bm25_results) = 1
    /\ bm25_call.top_k = MaxTopK

(***************************************************************************)
(* C13: determinism: for a fixed indexed corpus, two calls of search with  *)
(* the same (query, top_k, language, min_score) and no re-index in between *)
(* return identical ids, scores, ranks and order, also when the tokenizer  *)
(* switches from the NLTK segmenter to the regex fallback between them.    *)
(***************************************************************************)
C13_BM25SearchDeterministic ==
    bm25_prev # NoSearch =>
        /\ bm25_prev.call.query = bm25_call.query
        /\ bm25_prev.call.top_k = bm25_call.top_k
        /\ bm25_prev.call.language = bm25_call.language
        /\ bm25_prev.call.min_score = bm25_call.min_score
        /\ bm25_results = bm25_prev.results

(***************************************************************************)
(* Vocabulary of the score properties.                                     *)
(***************************************************************************)
EditMade == okapi_edit # NoEdit
ScoreBefore == OkapiScore(QueryTerm, okapi_edit.before, okapi_edit.doc)
ScoreAfter == OkapiScore(QueryTerm, okapi_corpus, okapi_edit.doc)
FrequencyBefore == TermFrequency(QueryTerm, okapi_edit.before[okapi_edit.doc])

\* the replacement left the IDF of the query term as it was, or the document
\* did not hold the term before (its score was 0)
IDFComparable == FrequencyBefore = 0 \/ ScoreBefore.idf = ScoreAfter.idf

GraphSearched == graph_call # NoGraphSearch

\* the stored entities whose name contains the extracted name
NameMatches(name) ==
    { id \in DOMAIN graph_entities : Contains(graph_entities[id].name, name) }

\* the stored entities find_entities_by_name can return for the extracted name:
\* of the language of the call when one is given
LanguageMatches(name, language) ==
    { id \in NameMatches(name) :
        Truthy(language) => graph_entities[id].language = language }

\* no extracted entity matches a stored entity
NoEntityMatches ==
    \A i \in 1..Len(graph_call.query_entities) :
        LanguageMatches(graph_call.query_entities[i], graph_call.language) = {}

\* C15: a graph search for which the extractor returned no entities, or no
\* extracted entity matches a stored entity, returns the empty list and does
\* not query the store for chunks.
C15_GraphEmptyWithoutCandidates ==
    (GraphSearched /\ (graph_call.query_entities = <<>> \/ NoEntityMatches)) =>
        /\ graph_results = <<>>
        /\ ~graph_call.chunks_queried

\* a search whose extracted entity matches no stored entity, on a store that
\* has mentions
C15_Witness ==
    /\ GraphSearched
    /\ graph_call.query_entities # <<>>
    /\ NoEntityMatches
    /\ graph_mentions # {}
    /\ graph_results = <<>>

\* C16: a graph search returns at most top_k results, in order of
\* non-increasing score, with ranks 1..N in output order and no chunk id twice.
C16_GraphResultsRanked ==
    GraphSearched =>
        /\ Len(graph_results) <= graph_call.top_k
        /\ \A i \in 1..Len(graph_results) : graph_results[i].rank = i
        /\ \A i \in 1..(Len(graph_results) - 1) :
              graph_results[i].score >= graph_results[i + 1].score
        /\ \A i, j \in 1..Len(graph_results) :
              i # j => graph_results[i].chunk_id # graph_results[j].chunk_id

\* two chunks returned with different scores
C16_Witness ==
    /\ GraphSearched
    /\ Len(graph_results) = 2
    /\ graph_results[1].score > graph_results[2].score

\* the candidate entities of the call
Candidates == Range(graph_call.entity_ids)

\* the score the claim gives a chunk: each mention edge to a candidate once
ExpectedGraphScore(chunk_id) ==
    SumMentions({ m \in graph_mentions : m.chunk = chunk_id /\ m.entity \in Candidates })

\* C17: every returned chunk's score is the sum of mention.confidence x
\* entity.confidence over its mention edges to candidate entities, each edge
\* once however often the candidate id was accumulated; the candidates are
\* entities of the language of the call whose name contains an extracted
\* name, at most 3 for each extracted entity.
C17_GraphScoreOverSameLanguageCandidates ==
    GraphSearched =>
        /\ \A i \in 1..Len(graph_results) :
              graph_results[i].score = ExpectedGraphScore(graph_results[i].chunk_id)
        /\ \A i \in 1..Len(graph_call.matches) :
              /\ Len(graph_call.matches[i]) <= 3
              /\ \A id \in Range(graph_call.matches[i]) :
                    /\ id \in NameMatches(graph_call.query_entities[i])
                    /\ graph_entities[id].language = graph_call.language

\* the edges of the pair named by the last link call
LinkedMentions == MentionsOf(graph_link.chunk_id, graph_link.entity_id)

\* C18: there is at most one MENTIONS edge for a (chunk, entity) pair; after
\* a link call whose chunk and entity exist the pair's edge has the confidence
\* of the call; a link call changes no edge of another pair, and creates
\* nothing when its chunk or its entity does not exist.
C18_OneMentionPerPairLastConfidence ==
    /\ [](\A m1, m2 \in graph_mentions :
             (m1.chunk = m2.chunk /\ m1.entity = m2.entity) => m1 = m2)
    /\ []((graph_link # NoLink /\ graph_link.matched) =>
             \E m \in LinkedMentions :
                 LinkedMentions = {m} /\ m.confidence = graph_link.confidence)
    /\ [][ graph_mentions' # graph_mentions =>
             /\ graph_link'.matched
             /\ \A m \in graph_mentions \cup graph_mentions' :
                   (m.chunk # graph_link'.chunk_id \/ m.entity # graph_link'.entity_id)
                   => (m \in graph_mentions /\ m \in graph_mentions') ]_vars

\* a pair linked twice: the edge carries the confidence of the second call
C18_Witness ==
    /\ graph_link # NoLink
    /\ graph_link.matched
    /\ graph_link.confidence = 5
    /\ Cardinality(graph_mentions) = 2
    /\ \E m \in graph_mentions : m.confidence = 10

\* C19: two extracted entities that ingestion stored with the same lowercased
\* name and the same language have the same entity id (one node), two with
\* the same name and different languages have different ids, and
\* generate_entity_id gives one id for a name and a language, different for
\* 'en' and 'es'.
C19_EntityIdFromLowercasedNameAndLanguage ==
    /\ \A a, b \in ingested :
          /\ (NameLower(a.name) = NameLower(b.name) /\ a.language = b.language)
                => a.id = b.id
          /\ (a.name = b.name /\ a.language # b.language) => a.id # b.id
    /\ \A e \in ExtractedEntities :
          generate_entity_id(e.name, "en") # generate_entity_id(e.name, "es")

(***************************************************************************)
(* Vocabulary of the orchestration property.                               *)
(***************************************************************************)
Queried == query_request # NoRequest

\* the method was requested ("colbert" requests the dense method)
Requested(m) ==
    \/ m \in query_request.retrieval_methods
    \/ m = "dense" /\ "colbert" \in query_request.retrieval_methods

\* the dense retriever is searched a second time: 'dense' and 'colbert' are both
\* named and the first search raised
DenseSearchedAgain ==
    /\ {"dense", "colbert"} \subseteq query_request.retrieval_methods
    /\ "dense" \in query_request.retrievers
    /\ query_request.outcomes["dense"].raised
    /\ ~("bm25" \in query_request.retrieval_methods \cap query_request.retrievers
         /\ query_request.outcomes["bm25"].raised)
\* what the last search of the method's retriever did
LastOutcome(m) ==
    IF m = "dense" /\ DenseSearchedAgain THEN query_request.outcomes["dense_again"]
    ELSE query_request.outcomes[m]

\* the method is requested and its retriever is not configured or its search raises
Fails(m) ==
    /\ Requested(m)
    /\ m \notin query_request.retrievers \/ LastOutcome(m).raised

\* the method is requested, configured, and its search returns a list
Answers(m) ==
    /\ Requested(m)
    /\ m \in query_request.retrievers
    /\ ~LastOutcome(m).raised

\* results_dict of the methods that answer, in the order bm25, dense, graph
RECURSIVE RemainingDict(_)
RemainingDict(i) ==
    IF i > Len(MethodOrder) THEN <<>>
    ELSE (IF Answers(MethodOrder[i])
          THEN << [method |-> MethodOrder[i],
                   results |-> ResultList(MethodOrder[i],
                                          LastOutcome(MethodOrder[i]).ids)] >>
          ELSE <<>>) \o RemainingDict(i + 1)

\* C20: when a requested method's retriever is not configured or its search
\* raises, and another requested method returned results, the request
\* succeeds with the fused results of the remaining methods.
C20_FailedMethodIsSkipped ==
    \A m \in Methods :
        (/\ Queried
         /\ Fails(m)
         /\ \E other \in Methods \ {m} :
               Answers(other) /\ LastOutcome(other).ids # <<>>)
        => /\ query_response.status = 200
           /\ query_response.results =
                 reciprocal_rank_fusion(RemainingDict(1), query_request.rrf_k,
                                        query_request.top_k)

\* the method's retriever was searched and returned at least one result
Contributes(m) == Answers(m) /\ LastOutcome(m).ids # <<>>
Succeeded == Queried /\ query_response.status = 200
MethodsUsed == {query_response.methods_used[i] : i \in 1..Len(query_response.methods_used)}

\* C21: methods_used of a successful response lists exactly the methods that
\* contributed results: a method is listed iff it was requested, available,
\* did not fail and returned at least one result.
C21_MethodsUsedAreContributors ==
    Succeeded => \A m \in Methods : m \in MethodsUsed <=> Contributes(m)

\* every requested method is unavailable, failed or returned an empty list
TotalFailure == Queried /\ \A m \in Methods : Requested(m) => ~Contributes(m)
BM25Raised ==
    /\ "bm25" \in query_request.retrieval_methods \cap query_request.retrievers
    /\ query_request.outcomes["bm25"].raised
ErrorAnswer == query_response.status = 500 /\ query_response.results = <<>>

NothingIndexed(h) == h.indexed = 0
\* a request over a non-empty index whose query matched no document
NoDocumentMatched(h) == h.indexed > 0 /\ h.matched = 0

\* C23: the response for total retrieval failure (nothing indexed) is never
\* the response of a query over a non-empty index that matches no document.
C23_NothingIndexedDistinctFromNoMatch ==
    \A g, h \in query_errors :
        NothingIndexed(g) /\ NoDocumentMatched(h) => g.response # h.response

NamesColbert == Queried /\ "colbert" \in query_request.retrieval_methods
\* what the same request answers when it names 'dense' in place of 'colbert'
DenseOnlyResponse ==
    hybrid_search((query_request.retrieval_methods \ {"colbert"}) \cup {"dense"},
                  query_request.retrievers, query_request.outcomes,
                  query_request.rrf_k, query_request.top_k)
SameAnswer(r, s) ==
    /\ r.status = s.status /\ r.detail = s.detail
    /\ r.results = s.results /\ r.methods_used = s.methods_used
DenseSearches ==
    Cardinality({i \in 1..Len(query_response.searched) :
                    query_response.searched[i] = "dense"})

UniqueIds(docs) == \A i, j \in 1..Len(docs) : docs[i].id = docs[j].id => i = j
Holds(docs, chunk) == \E i \in 1..Len(docs) : docs[i] = chunk
Ingested == store_result.fn = "ingest_document" /\ store_result.status = 200
\* a reset that returned and that got to ChunkStore.clear()
ChunkStoreCleared ==
    /\ store_result.fn \in {"reset_all_data", "reset_ingested_content"}
    /\ store_result.status = 200
    /\ store_result.fn = "reset_ingested_content" => store_result.force \/ ~app_state.persist
EveryIdOnce ==
    app_state.started =>
        UniqueIds(app_state.documents) /\ UniqueIds(load_all(chunk_file))
LastIngestedVersionHeld ==
    Ingested =>
        \A i \in 1..ChunkCount(store_result.doc_id) :
            LET chunk == DocObjects(store_result.doc_id, store_result.language)[i]
            IN  /\ Holds(app_state.documents, chunk)
                /\ app_state.persist => Holds(load_all(chunk_file), chunk)
\* a successful ingest leaves the chunks of the other documents as they were
OtherChunksKept ==
    (store_result'.fn = "ingest_document" /\ store_result'.status = 200)
    => \A i \in 1..Len(app_state.documents) :
          app_state.documents[i].id \notin
              ChunkIdsOf(DocObjects(store_result'.doc_id, store_result'.language))
          => Holds(app_state'.documents, app_state.documents[i])

\* C25: after any sequence of ingests (re-ingests included), app_state
\* ['documents'] and ChunkStore.load_all() hold every chunk id at most once,
\* with the version of the last successful ingest of that chunk; after
\* ChunkStore.clear(), load_all() is the empty list.
C25_ChunkIdsUniqueLatestVersion ==
    /\ [](EveryIdOnce /\ LastIngestedVersionHeld)
    /\ [](ChunkStoreCleared => load_all(chunk_file) = <<>>)
    /\ [][OtherChunksKept]_vars
\* d1 was ingested, then d2, then d1 again
C25_Witness ==
    /\ Ingested /\ store_result.doc_id = "d1" /\ app_state.persist
    /\ Len(app_state.documents) = 3
    /\ app_state.documents[1] = DocObjects("d1", store_result.language)[1]
    /\ load_all(chunk_file) = app_state.documents

ChunksListed == store_result.fn = "list_chunks"

\* C26: GET /chunks with the default source 'auto' answers 503 when no
\* Qdrant-backed dense retriever is configured, as it does for 'qdrant'.
C26_AutoSourceRequiresQdrant ==
    (ChunksListed /\ store_result.source \in {"auto", "qdrant"}
                  /\ app_state.dense # "qdrant")
    => store_result.status = 503

\* a reset that returned; reset_ingested_content skips the reset when the
\* content is persisted and the reset is not forced
ResetDone == ChunkStoreCleared
SameChunkIdSpace ==
    /\ ChunkIdsOf(bm25_index) = ChunkIdsOf(app_state.documents)
    /\ app_state.dense # "none" => qdrant_points = ChunkIdsOf(app_state.documents)
    /\ app_state.neo4j => neo4j_chunks = ChunkIdsOf(app_state.documents)

\* C27: after every ingest that reports success and after every reset, the
\* BM25 index, app_state['documents'] and, where configured, the dense index
\* and the graph store hold the same set of chunk ids, the empty set after a
\* reset.
C27_SharedChunkIdSpace ==
    /\ Ingested => SameChunkIdSpace
    /\ ResetDone => SameChunkIdSpace /\ app_state.documents = <<>>

StreamsFinished ==
    /\ app_state.started
    /\ \A doc_id \in UploadedFiles : ingest_streams[doc_id].pc \in {"idle", "done"}
    /\ \E doc_id \in UploadedFiles : ingest_streams[doc_id].pc = "done"
SearchedStores == store_result.fn = "hybrid_search"

\* C28: an ingest and a reset have exclusive access to the stores from their
\* first write to their last: a search never finds a chunk in the graph
\* store that the BM25 index lacks, and once every request has finished,
\* every chunk of the BM25 index has its node in the graph store.
C28_MutationsAreExclusive ==
    /\ SearchedStores => store_result.graph \subseteq store_result.bm25
    /\ StreamsFinished => ChunkIdsOf(bm25_index) \subseteq neo4j_chunks

Cleared == bm25_last # NoSearch /\ bm25_last.fn = "clear_index"
EmptyRetriever ==
    /\ documents = <<>> /\ doc_ids = <<>> /\ tokenized_corpus = <<>> /\ bm25 = NoBM25

\* C29: in every reachable state of the BM25 retriever doc_ids is the list of
\* the ids of documents, tokenized_corpus has one entry per document, and
\* bm25 is None exactly when documents is empty; after clear_index the
\* retriever is as after index_documents([]).
C29_RetrieverFieldsAgree ==
    /\ doc_ids = IdsOf(documents)
    /\ Len(tokenized_corpus) = Len(documents)
    /\ bm25 = NoBM25 <=> documents = <<>>
    /\ Cleared => EmptyRetriever

ResetAllSucceeded == store_result.fn = "reset_all_data" /\ store_result.status = 200
AllStoresEmpty ==
    /\ neo4j_chunks = {} /\ qdrant_points = {} /\ bm25_index = <<>>
    /\ load_all(chunk_file) = <<>> /\ app_state.documents = <<>>
\* a reset-all that answers an error has cleared no store
FailedResetClearsNothing ==
    (store_result'.fn = "reset_all_data" /\ store_result'.status # 200)
    => UNCHANGED <<app_state, chunk_file, bm25_index, qdrant_points, neo4j_chunks>>

\* C30: reset-all is all-or-nothing: after a reset_all_data that returns
\* success the graph, the Qdrant collection, the BM25 index, the chunk store
\* and app_state['documents'] are all empty, and a reset_all_data that
\* returns an error has cleared none of them.
C30_ResetAllIsAllOrNothing ==
    /\ [](ResetAllSucceeded => AllStoresEmpty)
    /\ [][FailedResetClearsNothing]_vars

====
